---- MODULE Spec2Model ----
(***************************************************************************)
(* Seshat-Agent: the processing pipeline orchestrator (orchestrator.py)    *)
(* with the collaborators it drives (input_manager.py, notion_handler.py), *)
(* and the folder scanner (input_manager.get_audio_files) and the analysis *)
(* service (summarizer_service.py) called on their own; the publishing     *)
(* capability (notion_handler.py), the transcription services              *)
(* (whisper_transcriber.py, google_stt_transcriber.py), the settings       *)
(* (config_manager.py) and the meeting scheduler (agent.py with            *)
(* obs_control.py, transcriber.py, summarizer.py, notion_writer.py).       *)
(*                                                                         *)
(* Strings are sequences of pieces: single characters wherever the code    *)
(* inspects characters (strip, split, the "https://" test), whole literals *)
(* for the fixed parts of messages.  The empty string and the empty list   *)
(* are both <<>>.  None is modelled by FALSE for the three capabilities.   *)
(***************************************************************************)
EXTENDS Integers, Sequences, FiniteSets, TLC

\* ---------------------------------------------------------------- bounds
MaxFiles == 2      \* most audio files the scanner returns for one folder
MaxRuns == 2       \* entry-point invocations followed in one behaviour
MaxEntries == 3    \* most entries of a directory given to get_audio_files
MaxLines == 3      \* most lines of a model response with action items
MaxPolls == 2      \* calendar polls of main_loop followed in one behaviour
MaxChunks == 2     \* full chunks in the longest transcript published on its own

VARIABLES
    settings,               \* Orchestrator.settings
    constructors,           \* what each capability's constructor does if called
    transcription_service,  \* Orchestrator.transcription_service is bound
    summarizer_service,     \* Orchestrator.summarizer_service is bound
    notion_handler,         \* Orchestrator.notion_handler is bound
    run,                    \* number of the current invocation
    advanced,               \* files an earlier folder run took past transcription
    passed,                 \* files this run took past transcription
    entry,                  \* "none" | "folder" | "single": the entry point
    pc,                     \* position in the entry point being run
    folder,                 \* the supported audio files the folder holds
    date_mapping,           \* process_folder's date_mapping argument
    audio_files,            \* process_folder's audio_files
    idx,                    \* position of the for loop in audio_files
    notion_page_date_iso,   \* date resolved for the current item
    transcript_text,        \* process_single_audio_file's transcript_text
    summary_data,           \* process_single_audio_file's summary_data
    result,                 \* value returned by process_single_audio_file
    calls,                  \* collaborator calls made for the current item
    resp,                   \* collaborator responses the current item used
    results,                \* process_folder's results list
    propagated,             \* exception that left the entry point, if any
    scan,                   \* the last call of input_manager.get_audio_files
    analyzed,               \* the last call of SummarizerService.analyze_transcript
    created,                \* the last call of NotionHandler.create_notion_page
    handler,                \* the last construction NotionHandler(api_key, database_id)
    transcribed,            \* the last call of a TranscriptionService's transcribe
    loaded,                 \* the last call of config_manager.load_settings
    loop_pc,                \* position of agent.main_loop
    now,                    \* datetime.now(), in seconds since main_loop started
    polls,                  \* calls of get_todays_meetings made so far
    calendar,               \* today's meetings in the calendar database
    meetings,               \* main_loop's meetings
    position,               \* position of the for loop in meetings
    obs_recording,          \* OBS is recording
    recordings,             \* the *.mp4 files of recordings/, latest first
    transcripts,            \* the recordings transcripts/ has a file for
    video_path,             \* main_loop's video_path
    meeting_analysis,       \* main_loop's analysis
    stages,                 \* what main_loop invoked for the current meeting
    captured,               \* meetings whose capture earlier polls started and stopped
    loop_exc,               \* exception that left main_loop, if any
    open_captures           \* start_obs_recording calls not yet followed by a stop

vars == <<settings, constructors, transcription_service, summarizer_service, notion_handler, run,
          advanced, passed, entry, pc, folder, date_mapping, audio_files,
          idx, notion_page_date_iso, transcript_text, summary_data, result,
          calls, resp, results, propagated, scan, analyzed, created, handler,
          transcribed, loaded, loop_pc, now, polls, calendar, meetings,
          position, obs_recording, recordings, transcripts, video_path,
          meeting_analysis, stages, captured, loop_exc, open_captures>>

\* the state of agent.main_loop and of what it works on
scheduler == <<loop_pc, now, polls, calendar, meetings, position,
               obs_recording, recordings, transcripts, video_path,
               meeting_analysis, stages, captured, loop_exc, open_captures>>

\* the calls made on the other modules directly, apart from the scan and
\* the analysis
direct_calls == <<created, handler, transcribed, loaded, scheduler>>

\* ------------------------------------------------------- python strings
Whitespace == {" ", "\n", "\t"}

RECURSIVE lstrip(_)
lstrip(s) == IF s # <<>> /\ Head(s) \in Whitespace THEN lstrip(Tail(s)) ELSE s

RECURSIVE rstrip(_)
rstrip(s) ==
    IF s # <<>> /\ s[Len(s)] \in Whitespace
    THEN rstrip(SubSeq(s, 1, Len(s) - 1)) ELSE s

\* the text used as it came, the strip() forgotten
NoStrip(s) == s

\* str.strip()
strip(s) == rstrip(lstrip(s))

\* every str and every list counts as true
TruthyAlways(s) == TRUE

\* truth value of a str or a list
Truthy(s) == s # <<>>

\* s.startswith(sub) in place of `sub in s`
StartsWith(sub, s) == Len(sub) <= Len(s) /\ SubSeq(s, 1, Len(sub)) = sub

\* `sub in s`
Contains(sub, s) ==
    \E i \in 0..(Len(s) - Len(sub)) : SubSeq(s, i + 1, i + Len(sub)) = sub

\* the text used whole, the split forgotten
NoSplit(s, sep) == s

\* s.split(sep)[0]
RECURSIVE SplitFirst(_, _)
SplitFirst(s, sep) ==
    IF s = <<>> \/ Head(s) = sep THEN <<>>
    ELSE <<Head(s)>> \o SplitFirst(Tail(s), sep)

Capitals == <<"A", "B", "C", "D", "E", "F", "G", "H", "I", "J", "K", "L", "M",
              "N", "O", "P", "Q", "R", "S", "T", "U", "V", "W", "X", "Y", "Z">>
Smalls == <<"a", "b", "c", "d", "e", "f", "g", "h", "i", "j", "k", "l", "m",
            "n", "o", "p", "q", "r", "s", "t", "u", "v", "w", "x", "y", "z">>

\* the lower-case form of one piece of text
lower_char(c) ==
    IF \E i \in DOMAIN Capitals : Capitals[i] = c
    THEN Smalls[CHOOSE i \in DOMAIN Capitals : Capitals[i] = c]
    ELSE c

\* the text compared as it is spelled, the lower() forgotten
NoLower(s) == s

\* str.lower()
RECURSIVE lower(_)
lower(s) ==
    IF s = <<>> THEN <<>> ELSE <<lower_char(Head(s))>> \o lower(Tail(s))

\* str.rfind(c) + 1: the place of the last c in s, 0 when there is none
RECURSIVE rfind(_, _)
rfind(s, c) ==
    IF s = <<>> THEN 0
    ELSE IF s[Len(s)] = c THEN Len(s)
    ELSE rfind(SubSeq(s, 1, Len(s) - 1), c)

\* s.split(sep)
RECURSIVE split(_, _)
split(s, sep) ==
    LET first == SplitFirst(s, sep) IN
    IF Len(first) = Len(s) THEN <<first>>
    ELSE <<first>> \o split(SubSeq(s, Len(first) + 2, Len(s)), sep)

\* `prefix in s` in place of s.startswith(prefix)
startswith_anywhere(s, prefix) == Contains(prefix, s)

\* s.startswith(prefix)
startswith(s, prefix) ==
    Len(prefix) <= Len(s) /\ SubSeq(s, 1, Len(prefix)) = prefix

\* the entry kept with its bullet, the lstrip forgotten
lstrip_nothing(s, chars) == s

\* s.lstrip(chars): every leading character that is in chars removed
RECURSIVE lstrip_chars(_, _)
lstrip_chars(s, chars) ==
    IF s # <<>> /\ Head(s) \in chars THEN lstrip_chars(Tail(s), chars) ELSE s

\* the upper-case form of one piece of text
upper_char(c) ==
    IF \E i \in DOMAIN Smalls : Smalls[i] = c
    THEN Capitals[CHOOSE i \in DOMAIN Smalls : Smalls[i] = c]
    ELSE c

\* str.upper()
RECURSIVE upper(_)
upper(s) ==
    IF s = <<>> THEN <<>> ELSE <<upper_char(Head(s))>> \o upper(Tail(s))

\* "".join(parts)
RECURSIVE Join(_)
Join(parts) == IF parts = <<>> THEN <<>> ELSE Head(parts) \o Join(Tail(parts))

Digit(n) == <<"0", "1", "2", "3", "4", "5", "6", "7", "8", "9">>[n + 1]

\* the decimal digits of n, zero padded to width w
RECURSIVE ZeroPad(_, _)
ZeroPad(n, w) ==
    IF w = 0 THEN <<>> ELSE ZeroPad(n \div 10, w - 1) \o <<Digit(n % 10)>>

Https == <<"h", "t", "t", "p", "s", ":", "/", "/">>

\* ---------------------------------------------------- python exceptions
NoExc == [type |-> "none", text |-> <<>>]

Base(t) ==
    CASE t = "FileNotFoundError" -> "OSError"
      [] t = "PermissionError" -> "OSError"
      [] t = "OSError" -> "Exception"
      [] t = "RuntimeError" -> "Exception"
      [] t = "TypeError" -> "Exception"
      [] t = "ValueError" -> "Exception"
      [] t = "AttributeError" -> "Exception"
      [] t = "ResourceExhausted" -> "Exception"
      [] t = "APIResponseError" -> "Exception"
      [] t = "ConnectError" -> "Exception"
      [] t = "TimeoutError" -> "OSError"
      [] t = "JSONDecodeError" -> "ValueError"
      [] t = "UnboundLocalError" -> "NameError"
      [] t = "NameError" -> "Exception"
      [] OTHER -> "BaseException"

\* isinstance(e, c) for an exception of type t
RECURSIVE IsSubclass(_, _)
IsSubclass(t, c) ==
    \/ t = c
    \/ t # "BaseException" /\ IsSubclass(Base(t), c)

\* ----------------------------------------------------------- file paths
FileIds == 1..MaxFiles

\* Path.stem, Path.name and str(Path) of the f-th file of the folder
Stem(f) == <<"rec", Digit(f)>>
Name(f) == Stem(f) \o <<".", "w", "a", "v">>
PathStr(f) == <<"in", "/">> \o Name(f)

\* ------------------------------------------------------ input_manager.py
\* datetime.isoformat() of a datetime in UTC
isoformat(dt) ==
    ZeroPad(dt.year, 4) \o <<"-">> \o ZeroPad(dt.month, 2) \o <<"-">>
        \o ZeroPad(dt.day, 2) \o <<"T">> \o ZeroPad(dt.hour, 2) \o <<":">>
        \o ZeroPad(dt.minute, 2) \o <<":">> \o ZeroPad(dt.second, 2)
        \o (IF dt.microsecond # 0
            THEN <<".">> \o ZeroPad(dt.microsecond, 6) ELSE <<>>)
        \o <<"+", "0", "0", ":", "0", "0">>

\* what the file system answers for one file: is_file(), stat(), the times
\* already converted by datetime.fromtimestamp(_, timezone.utc)
NoTime == [year |-> 0, month |-> 0, day |-> 0, hour |-> 0, minute |-> 0,
           second |-> 0, microsecond |-> 0]
Modified == [year |-> 2025, month |-> 6, day |-> 1, hour |-> 10,
             minute |-> 30, second |-> 0, microsecond |-> 120]
Born == [year |-> 987, month |-> 12, day |-> 31, hour |-> 23,
         minute |-> 59, second |-> 59, microsecond |-> 0]

FileStates ==
    { [is_file |-> TRUE, stat_ok |-> TRUE, has_birthtime |-> TRUE,
       st_birthtime |-> Born, st_mtime |-> Modified],
      [is_file |-> TRUE, stat_ok |-> TRUE, has_birthtime |-> FALSE,
       st_birthtime |-> NoTime, st_mtime |-> Born],
      [is_file |-> FALSE, stat_ok |-> FALSE, has_birthtime |-> FALSE,
       st_birthtime |-> NoTime, st_mtime |-> NoTime],
      [is_file |-> TRUE, stat_ok |-> FALSE, has_birthtime |-> FALSE,
       st_birthtime |-> NoTime, st_mtime |-> NoTime] }

get_file_metadata(f, st) ==
    IF ~st.is_file
    THEN [kind |-> "raise",
          exc |-> [type |-> "FileNotFoundError",
                   text |-> <<"File not found or is not a regular file: ">>
                            \o PathStr(f)]]
    ELSE IF ~st.stat_ok
    THEN [kind |-> "raise",
          exc |-> [type |-> "PermissionError",
                   text |-> <<"[Errno 13] Permission denied">>]]
    ELSE LET creation_timestamp ==
                 IF st.has_birthtime THEN st.st_birthtime ELSE st.st_mtime
         IN [kind |-> "return",
             metadata |->
                 [filename |-> Name(f),
                  creation_date_iso |-> isoformat(creation_timestamp),
                  modification_date_iso |-> isoformat(st.st_mtime)]]

\* PurePath.suffix of a file name
suffix(name) ==
    LET i == rfind(name, ".") IN
    IF 1 < i /\ i < Len(name) THEN SubSeq(name, i, Len(name)) ELSE <<>>

supported_formats ==
    { <<".", "m", "4", "a">>, <<".", "w", "a", "v">>, <<".", "m", "p", "3">>,
      <<".", "a", "a", "c">>, <<".", "f", "l", "a", "c">>,
      <<".", "o", "g", "g">>, <<".", "o", "p", "u", "s">> }

\* the for loop over folder_path.iterdir(): items in the order it yields them
RECURSIVE ScanItems(_)
ScanItems(items) ==
    IF items = <<>> THEN <<>>
    ELSE LET it == Head(items) IN
         (IF it.is_file /\ lower(suffix(it.name)) \in supported_formats
          THEN <<it.path>> ELSE <<>>)
         \o ScanItems(Tail(items))

\* get_audio_files over a path whose state is dir: is_dir() and, for a
\* directory, its entries with what is_file() answers for each
get_audio_files(dir) ==
    IF ~dir.is_dir THEN <<>> ELSE ScanItems(dir.entries)

\* a regular file directly in a folder, and a subdirectory with its entries
FileEntry(p, name) ==
    [path |-> p, name |-> name, is_file |-> TRUE, children |-> <<>>]
DirEntry(p, name, children) ==
    [path |-> p, name |-> name, is_file |-> FALSE, children |-> children]

\* the names given to entries of a scanned directory
EntryNames ==
    << <<"a", ".", "m", "p", "3">>, <<"b", ".", "t", "x", "t">>,
       <<"c", ".", "W", "A", "V">>, <<".", "o", "g", "g">>,
       <<"d">>, <<"e", ".", "m", "p", "3", "x">> >>

Nested == FileEntry(Len(EntryNames) + 1, <<"x", ".", "w", "a", "v">>)

EntryPool ==
    { FileEntry(i, EntryNames[i]) : i \in DOMAIN EntryNames }
    \cup { DirEntry(i, EntryNames[i], ch) :
               i \in DOMAIN EntryNames, ch \in {<<>>, <<Nested>>} }

\* the paths get_audio_files is called on: a missing path or a file, and
\* directories of up to MaxEntries entries with different names
Directories ==
    { [is_dir |-> FALSE, entries |-> <<>>] }
    \cup { [is_dir |-> TRUE, entries |-> es] :
              es \in { q \in UNION { [1..n -> EntryPool] : n \in 0..MaxEntries } :
                          \A i, j \in DOMAIN q :
                              q[i].path = q[j].path => i = j } }

NoScan == [called |-> FALSE, directory |-> [is_dir |-> FALSE, entries |-> <<>>],
           files |-> <<>>]

\* ----------------------------------------------------- notion_handler.py
PageUrl == Https \o <<"n", ".", "s", "o", "/", "p">>

\* what notion.pages.create does: the page it returns, with or without a
\* "url", or the error it raises
RemoteOutcomes ==
    { [kind |-> "created", has_url |-> TRUE, url |-> PageUrl,
       code |-> <<>>, body |-> <<>>],
      [kind |-> "created", has_url |-> FALSE, url |-> <<>>,
       code |-> <<>>, body |-> <<>>],
      [kind |-> "api_error", has_url |-> FALSE, url |-> <<>>,
       code |-> <<"validation_error">>, body |-> <<"b", "a", "d">>],
      [kind |-> "api_error", has_url |-> FALSE, url |-> <<>>,
       code |-> <<"validation_error">>,
       body |-> <<"s", "e", "e", " ">> \o Https \o <<"d">>] }

\* the string create_notion_page returns (the try block around pages.create)
create_notion_page(remote) ==
    CASE remote.kind = "created" ->
            IF remote.has_url THEN remote.url
            ELSE <<"URL not found in response">>
      [] remote.kind = "api_error" ->
            <<"Notion API Error while creating page: ">> \o remote.code
                \o <<" - ">> \o remote.body
      [] OTHER ->
            <<"An unexpected error occurred while creating Notion page: ">>
                \o remote.body

\* what self.notion.databases.retrieve does in the constructor: the database
\* or the error it raises
RetrieveOutcomes ==
    { [kind |-> "ok", type |-> "none", code |-> <<>>],
      [kind |-> "raise", type |-> "APIResponseError",
       code |-> <<"unauthorized">>],
      [kind |-> "raise", type |-> "APIResponseError",
       code |-> <<"object_not_found">>],
      [kind |-> "raise", type |-> "APIResponseError",
       code |-> <<"rate_limited">>],
      [kind |-> "raise", type |-> "ConnectError", code |-> <<>>] }

\* the test of the database id left out of the constructor
DatabaseIdNeverMissing(database_id) == FALSE

\* `if not database_id:`
DatabaseIdMissing(database_id) == ~Truthy(database_id)

\* NotionHandler.__init__(api_key, database_id) when the notion-client
\* library was imported or not (Client) and databases.retrieve does
\* `retrieve`: the object or the exception, and the remote calls made
NotionHandler_init(api_key, database_id, Client, retrieve) ==
    LET failed(type, text, remote) ==
            [kind |-> "raise", remote_calls |-> remote,
             exc |-> [type |-> type, text |-> text]]
    IN
    IF ~Client
    THEN failed("RuntimeError",
                <<"Notion client library (notion-client) is not installed. Please install it: pip install notion-client">>,
                <<>>)
    ELSE IF ~Truthy(api_key)
    THEN failed("ValueError", <<"Notion API key not provided.">>, <<>>)
    ELSE IF DatabaseIdMissing(database_id)
    THEN failed("ValueError", <<"Notion Database ID not provided.">>, <<>>)
    ELSE IF retrieve.kind = "ok"
    THEN [kind |-> "ok", remote_calls |-> <<"databases.retrieve">>,
          exc |-> NoExc]
    ELSE IF IsSubclass(retrieve.type, "APIResponseError")
    THEN failed("RuntimeError",
                IF retrieve.code = <<"unauthorized">>
                THEN <<"Notion API Error: Unauthorized. Check your API key. Details: ">>
                ELSE IF retrieve.code = <<"object_not_found">>
                THEN <<"Notion API Error: Database not found. Check your Database ID '">>
                         \o database_id \o <<"'. Details: ">>
                ELSE <<"Notion API Error during initialization. Details: ">>,
                <<"databases.retrieve">>)
    ELSE IF IsSubclass(retrieve.type, "Exception")
    THEN failed("RuntimeError", <<"Failed to initialize Notion client: ">>,
                <<"databases.retrieve">>)
    ELSE failed(retrieve.type, <<>>, <<"databases.retrieve">>)

\* the credentials the constructor is called with
ApiKeys == { <<>>, <<"notion-key">>, <<"fakekey">> }
DatabaseIds == { <<>>, <<"db-id">>, <<"fakedbid">> }

NoHandler ==
    [called |-> FALSE, api_key |-> <<>>, database_id |-> <<>>,
     Client |-> FALSE, outcome |-> [kind |-> "none"]]

\* self._heading(level, text_content), levels 1 to 3
heading(level, text_content) ==
    [type |-> "heading", level |-> level, content |-> text_content,
     children |-> <<>>]

\* self._paragraph(text_content): an empty text is sent as one space
paragraph(text_content) ==
    [type |-> "paragraph", level |-> 0,
     content |-> IF ~Truthy(text_content) THEN <<" ">> ELSE text_content,
     children |-> <<>>]

\* self._todo_item(text_content), unchecked
todo_item(text_content) ==
    [type |-> "to_do", level |-> 0, content |-> text_content,
     children |-> <<>>]

chunk_size == 2000

\* [text[i:i + chunk_size] for i in range(0, len(text), chunk_size)]
RECURSIVE split_text_into_chunks(_, _)
split_text_into_chunks(text, size) ==
    IF text = <<>> THEN <<>>
    ELSE IF Len(text) <= size THEN <<text>>
    ELSE <<SubSeq(text, 1, size)>>
             \o split_text_into_chunks(SubSeq(text, size + 1, Len(text)), size)

\* the toggle block with the whole text in one paragraph
toggle_block_unsplit(heading_text, content_text) ==
    [type |-> "toggle", level |-> 0, content |-> heading_text,
     children |-> << [type |-> "paragraph", level |-> 0,
                      content |-> content_text, children |-> <<>>] >>]

\* self._toggle_block_with_text_content(heading_text, content_text)
toggle_block_with_text_content(heading_text, content_text) ==
    LET chunks == split_text_into_chunks(content_text, chunk_size)
        content_chunks == IF chunks = <<>> THEN << <<" ">> >> ELSE chunks
    IN [type |-> "toggle", level |-> 0, content |-> heading_text,
        children |-> [i \in DOMAIN content_chunks |->
                          [type |-> "paragraph", level |-> 0,
                           content |-> content_chunks[i],
                           children |-> <<>>]]]

\* the page_content_blocks create_notion_page builds
page_content_blocks(summary, action_items, transcript) ==
    << heading(2, <<"Summary">>),
       paragraph(IF Truthy(summary) THEN summary
                 ELSE <<"No summary generated.">>),
       heading(2, <<"Action Items">>) >>
    \o (IF action_items # <<>>
        THEN [i \in DOMAIN action_items |-> todo_item(action_items[i])]
        ELSE << paragraph(<<"No action items identified.">>) >>)
    \o << heading(2, <<"Transcript">>),
          toggle_block_with_text_content(
              <<"Full Transcript">>,
              IF Truthy(transcript) THEN transcript
              ELSE <<"Transcript not available.">>) >>

\* notion.pages.create raising something else than APIResponseError
RemoteRaises(type, text) ==
    [kind |-> "error", has_url |-> FALSE, url |-> <<>>, code |-> type,
     body |-> text]

\* what notion.pages.create does when create_notion_page is called on its
\* own: also failures of the connection
PagesCreateOutcomes ==
    RemoteOutcomes
    \cup { RemoteRaises("ConnectError", <<"All connection attempts failed">>),
           RemoteRaises("TimeoutError", <<"timed out">>) }

\* `except APIResponseError` alone, without the `except Exception` after it
NotionCreateExceptNarrow == {"APIResponseError"}

\* the except clauses around notion.pages.create
NotionCreateExcept == {"APIResponseError", "Exception"}

\* NotionHandler.create_notion_page(title, date_iso, summary, action_items,
\* transcript, source_filename) when notion.pages.create does `remote`: the
\* page it sent, and what it returns or raises
NotionHandler_create_notion_page(title, date_iso, summary, action_items, transcript, source_filename, remote) ==
    LET sent == [properties |-> [Name |-> title, Date |-> date_iso,
                                 SourceFile |-> source_filename],
                 children |-> page_content_blocks(summary, action_items,
                                                  transcript)]
        raised == IF remote.kind = "api_error" THEN "APIResponseError"
                  ELSE remote.code
    IN IF /\ remote.kind \in {"api_error", "error"}
          /\ \A c \in NotionCreateExcept : ~IsSubclass(raised, c)
       THEN [kind |-> "raise", text |-> <<>>, sent |-> sent,
             exc |-> [type |-> raised, text |-> remote.body]]
       ELSE [kind |-> "return", text |-> create_notion_page(remote),
             sent |-> sent, exc |-> NoExc]

\* the arguments create_notion_page is called with on its own
Titles == { <<"f">>, <<>> }
Summaries == { <<>>, <<"s", "u", "m">> }
ActionItemLists ==
    { <<>>, << <<"d", "o">> >>, << <<"d", "o">>, <<"x">> >>,
      << <<"d", "o">>, <<>> >> }

\* a text of n characters; the letter changes every chunk_size characters
LongText(n) ==
    [i \in 1..n |-> IF ((i - 1) \div chunk_size) % 2 = 0 THEN "a" ELSE "b"]

PublishedTranscripts ==
    { <<>>, <<" ", "h", "i", "\n">>, LongText(chunk_size),
      LongText(chunk_size + 1), LongText(MaxChunks * chunk_size + 1) }

NoPage ==
    [called |-> FALSE, remote |-> [kind |-> "none"],
     args |-> [summary |-> <<>>, action_items |-> <<>>, transcript |-> <<>>],
     outcome |-> [kind |-> "none"]]

\* -------------------------------------------------- summarizer_service.py
Unasked == [kind |-> "unasked"]

NoItemsIdentified ==
    <<"N", "o", " ", "a", "c", "t", "i", "o", "n", " ", "i", "t", "e",
      "m", "s", " ", "i", "d", "e", "n", "t", "i", "f", "i", "e", "d",
      ".">>
NoItemsFound ==
    <<"N", "o", " ", "a", "c", "t", "i", "o", "n", " ", "i", "t", "e",
      "m", "s", " ", "f", "o", "u", "n", "d", ".">>

\* ["no action items identified.", "no action items found."]
no_items_replies == {lower(NoItemsIdentified), lower(NoItemsFound)}

\* what self.model.generate_content(prompt) does: a response with its text
\* and the parts of its first candidate, a response whose fields cannot be
\* read, or an exception
GeminiResponse(text, parts) ==
    [kind |-> "response", text |-> text, parts |-> parts, exc |-> NoExc]
GeminiMalformed ==
    [kind |-> "malformed", text |-> <<>>, parts |-> <<>>, exc |-> NoExc]
GeminiRaises(type, text) ==
    [kind |-> "raise", text |-> <<>>, parts |-> <<>>,
     exc |-> [type |-> type, text |-> text]]

\* SummarizerService._generate_content_with_gemini over what the model did
generate_content_with_gemini(r) ==
    CASE r.kind = "response" ->
            [kind |-> "return", exc |-> NoExc,
             text |-> IF Truthy(r.text) THEN r.text
                      ELSE IF Truthy(r.parts) THEN Join(r.parts) ELSE <<>>]
      [] r.kind = "malformed" ->
            [kind |-> "return", exc |-> NoExc, text |-> <<>>]
      [] OTHER ->
            IF IsSubclass(r.exc.type, "AttributeError")
            THEN [kind |-> "raise", text |-> <<>>,
                  exc |-> [type |-> "UnboundLocalError",
                           text |-> <<"local variable 'response' referenced">>]]
            ELSE IF IsSubclass(r.exc.type, "Exception")
            THEN [kind |-> "raise", text |-> <<>>,
                  exc |-> [type |-> "RuntimeError",
                           text |-> <<"Gemini API call failed: ">>
                                        \o r.exc.text]]
            ELSE [kind |-> "raise", text |-> <<>>, exc |-> r.exc]

\* `if not transcript:` alone, the whitespace test left out
EmptyTranscriptNoStrip(transcript) == ~Truthy(transcript)

\* not transcript or not transcript.strip()
EmptyTranscript(transcript) ==
    ~Truthy(transcript) \/ ~Truthy(strip(transcript))

\* [item.strip() for item in lines if item.strip().startswith('-')]
RECURSIVE BulletedLines(_)
BulletedLines(lines) ==
    IF lines = <<>> THEN <<>>
    ELSE (IF startswith(strip(Head(lines)), <<"-">>)
          THEN <<strip(Head(lines))>> ELSE <<>>)
         \o BulletedLines(Tail(lines))

\* [item.lstrip('- ').strip() for item in items if item.lstrip('- ').strip()]
RECURSIVE CleanedItems(_)
CleanedItems(items) ==
    IF items = <<>> THEN <<>>
    ELSE LET cleaned == strip(lstrip_chars(Head(items), {"-", " "})) IN
         (IF Truthy(cleaned) THEN <<cleaned>> ELSE <<>>)
         \o CleanedItems(Tail(items))

\* the action_items_list analyze_transcript builds from the model's text
ParseActionItems(text) ==
    LET raw_action_items_text == strip(text) IN
    IF /\ Truthy(raw_action_items_text)
       /\ lower(raw_action_items_text) \notin no_items_replies
    THEN CleanedItems(BulletedLines(split(raw_action_items_text, "\n")))
    ELSE IF \/ Contains(SubSeq(lower(NoItemsIdentified), 1,
                               Len(NoItemsIdentified) - 1),
                        lower(raw_action_items_text))
            \/ Contains(SubSeq(lower(NoItemsFound), 1, Len(NoItemsFound) - 1),
                        lower(raw_action_items_text))
    THEN <<>>
    ELSE <<>>

\* SummarizerService.analyze_transcript(transcript, original_filename) when
\* the model answers the summary prompt with m.summary and the action-items
\* prompt with m.action_items: what it returns or raises, the prompts it
\* sent and the model answers it used
analyze_transcript(transcript, original_filename, m) ==
    LET empty == [summary |-> <<>>, action_items |-> <<>>,
                  original_filename |-> original_filename]
    IN
    IF EmptyTranscript(transcript)
    THEN [kind |-> "return", data |-> empty, exc |-> NoExc,
          prompts |-> <<>>, used |-> [summary |-> Unasked,
                                      action_items |-> Unasked]]
    ELSE LET s == generate_content_with_gemini(m.summary)
             summary_text == IF s.kind = "return" THEN strip(s.text) ELSE <<>>
         IN
         IF s.kind = "raise" /\ ~IsSubclass(s.exc.type, "RuntimeError")
         THEN [kind |-> "raise", data |-> empty, exc |-> s.exc,
               prompts |-> <<"summary">>,
               used |-> [summary |-> m.summary, action_items |-> Unasked]]
         ELSE LET a == generate_content_with_gemini(m.action_items)
                  action_items_list ==
                      IF a.kind = "return" THEN ParseActionItems(a.text)
                      ELSE <<>>
              IN
              IF a.kind = "raise" /\ ~IsSubclass(a.exc.type, "RuntimeError")
              THEN [kind |-> "raise", data |-> empty, exc |-> a.exc,
                    prompts |-> <<"summary", "action_items">>, used |-> m]
              ELSE [kind |-> "return",
                    data |-> [summary |-> summary_text,
                              action_items |-> action_items_list,
                              original_filename |-> original_filename],
                    exc |-> NoExc,
                    prompts |-> <<"summary", "action_items">>, used |-> m]

\* the transcripts and file names analyze_transcript is called with
Transcripts ==
    { <<>>, <<" ">>, <<"\n">>, <<" ", "\t", "\n">>, <<" ", "h", "i", "\n">> }
Filenames == { <<>>, <<"f", ".", "w", "a", "v">> }

\* what the model does for the summary prompt
SummaryReplies ==
    { GeminiResponse(<<" ", "s", "u", "m", "\n">>, <<>>),
      GeminiResponse(<<>>, << <<"s", "u">>, <<"m">> >>),
      GeminiMalformed,
      GeminiRaises("ResourceExhausted", <<"429 quota exceeded">>),
      GeminiRaises("AttributeError", <<"'NoneType' object has no attribute 'generate_content'">>) }

\* the lines model responses with action items are made of
ResponseLines ==
    { <<"-", " ", "Follow up with Bob">>,
      <<"no bullet here">>,
      <<"-", " ", "Send report">>,
      <<"-", " ", "no bullet here">>,
      <<" ", "-", "\t", "x", " ">>,
      <<"-", " ">>,
      <<>>,
      <<"-", " ", "-", "y">>,
      <<"call", " ", "-", " ", "urgent">> }

\* the lines joined with newlines
RECURSIVE JoinLines(_)
JoinLines(lines) ==
    IF Len(lines) = 1 THEN lines[1]
    ELSE lines[1] \o <<"\n">> \o JoinLines(Tail(lines))

ActionItemTexts ==
    { JoinLines(lines) :
        lines \in UNION { [1..n -> ResponseLines] : n \in 1..MaxLines } }

\* the sentence the prompt asks for when there are no action items, in the
\* case asked for, in upper and in lower case, alone, after the bullet the
\* prompt ends with, and between blank characters
NoItemsTexts ==
    LET spelled == { f : f \in UNION { {t, upper(t), lower(t)} :
                                          t \in {NoItemsIdentified, NoItemsFound} } }
    IN spelled
       \cup { <<"-", " ">> \o t : t \in spelled }
       \cup { <<" ">> \o t \o <<"\n">> : t \in spelled }

\* what the model does for the action-items prompt
ActionItemReplies ==
    { GeminiResponse(t, <<>>) : t \in ActionItemTexts \cup NoItemsTexts }
    \cup { GeminiMalformed,
           GeminiRaises("ResourceExhausted", <<"429 quota exceeded">>),
           GeminiRaises("AttributeError", <<"'NoneType' object has no attribute 'generate_content'">>) }

NoAnalysis ==
    [called |-> FALSE, transcript |-> <<>>, original_filename |-> <<>>,
     outcome |-> [kind |-> "none"]]

\* ------------------- whisper_transcriber.py, google_stt_transcriber.py
\* what transcribe finds when it is called: what audio_path refers to, its
\* suffix, what reading it as WAV gives, what ffmpeg does, what the Whisper
\* model does, and whether the temporary file can be deleted
TranscribeEnvs ==
    { e \in [ path : {"missing", "file", "directory"},
              wav : BOOLEAN,
              wave : {"unread", "desired", "other", "wave_error",
                      "open_error", "copy_error", "copy_partial"},
              ffmpeg : {"unavailable", "ok", "failed", "failed_partial",
                        "vanished"},
              model : {"text", "empty_text", "no_text", "raise_runtime",
                       "raise_value"},
              unlink : {"ok", "OSError"} ] :
        /\ e.wav <=> e.wave # "unread"
        /\ e.path = "directory" =>
               /\ e.wave \in {"unread", "open_error"}
               /\ e.ffmpeg \in {"unavailable", "failed", "failed_partial"}
        /\ e.path = "missing" =>
               /\ e.wave \in {"unread", "open_error"}
               /\ e.ffmpeg = "unavailable" /\ e.model = "text"
               /\ e.unlink = "ok" }

\* the except clauses of transcribe that raise the exception again
TranscribeReraised == {"FileNotFoundError", "RuntimeError"}

\* not audio_path.exists()
PathAbsent(e) == e.path = "missing"

\* WhisperTranscriber._convert_to_wav(audio_path): what it returns or
\* raises, the steps it ran, and whether the converted file exists after it
convert_to_wav(e) ==
    LET failed(type, text, ran, temp) ==
            [kind |-> "raise", ran |-> ran, temp |-> temp,
             exc |-> [type |-> type, text |-> text]]
        checked == IF e.wav THEN <<"wave.open">> ELSE <<>>
        \* shutil.copy raised after it had created wav_path
        partial == e.wav /\ e.wave = "copy_partial"
    IN
    IF PathAbsent(e)
    THEN failed("FileNotFoundError", <<"Input audio file not found: ">>,
                <<>>, FALSE)
    ELSE IF e.wav /\ e.wave = "desired"
    THEN [kind |-> "return", ran |-> <<"wave.open", "shutil.copy">>,
          temp |-> TRUE, exc |-> NoExc]
    ELSE LET before == IF e.wav /\ e.wave \in {"copy_error", "copy_partial"}
                       THEN <<"wave.open", "shutil.copy">> ELSE checked
         IN
         IF e.ffmpeg = "unavailable"
         THEN failed("FileNotFoundError",
                     <<"ffmpeg is not installed or not found in PATH. It is required for audio conversion.">>,
                     before, partial)
         ELSE IF e.ffmpeg = "ok"
         THEN [kind |-> "return", ran |-> before \o <<"ffmpeg">>,
               temp |-> TRUE, exc |-> NoExc]
         ELSE IF e.ffmpeg \in {"failed", "failed_partial"}
         THEN IF (e.ffmpeg = "failed_partial" \/ partial)
                 /\ e.unlink = "OSError"
              THEN failed("OSError", <<"[Errno 13] Permission denied">>,
                          before \o <<"ffmpeg">>, TRUE)
              ELSE failed("RuntimeError", <<"ffmpeg conversion failed for ">>,
                          before \o <<"ffmpeg">>, FALSE)
         ELSE failed("FileNotFoundError",
                     <<"ffmpeg not found during conversion. Please ensure it is installed and in your PATH.">>,
                     before \o <<"ffmpeg">>, partial)

\* WhisperTranscriber.transcribe(audio_path): what it returns or raises,
\* the steps it ran, and whether a converted file is left behind
WhisperTranscriber_transcribe(e) ==
    IF PathAbsent(e)
    THEN [kind |-> "raise", text |-> <<>>, ran |-> <<>>, temp_left |-> FALSE,
          exc |-> [type |-> "FileNotFoundError",
                   text |-> <<"Audio file not found: ">>]]
    ELSE LET c == convert_to_wav(e)
             left == c.temp /\ e.unlink = "OSError"
             ran == c.ran \o <<"model.transcribe">>
         IN
         IF c.kind = "raise"
         THEN [kind |-> "raise", text |-> <<>>, ran |-> c.ran,
               temp_left |-> c.temp,
               exc |-> IF \E t \in TranscribeReraised :
                              IsSubclass(c.exc.type, t)
                       THEN c.exc
                       ELSE [type |-> "RuntimeError",
                             text |-> <<"Whisper transcription failed for ">>
                                          \o c.exc.text]]
         ELSE IF e.model = "text"
         THEN [kind |-> "return", text |-> <<" ", "h", "i", "\n">>,
               ran |-> ran, temp_left |-> left, exc |-> NoExc]
         ELSE IF e.model = "empty_text"
         THEN [kind |-> "return", text |-> <<>>, ran |-> ran,
               temp_left |-> left, exc |-> NoExc]
         ELSE IF e.model = "raise_runtime"
         THEN [kind |-> "raise", text |-> <<>>, ran |-> ran,
               temp_left |-> left,
               exc |-> [type |-> "RuntimeError",
                        text |-> <<"CUDA out of memory">>]]
         ELSE [kind |-> "raise", text |-> <<>>, ran |-> ran,
               temp_left |-> left,
               exc |-> [type |-> "RuntimeError",
                        text |-> <<"Whisper transcription failed for ">>]]

\* GoogleSTTTranscriber.transcribe(audio_path), the simulated service
GoogleSTTTranscriber_transcribe(e) ==
    IF PathAbsent(e)
    THEN [kind |-> "raise", text |-> <<>>, ran |-> <<>>, temp_left |-> FALSE,
          exc |-> [type |-> "FileNotFoundError",
                   text |-> <<"Audio file not found: ">>]]
    ELSE [kind |-> "return",
          text |-> <<"[Simulated Google STT transcript for ">>,
          ran |-> <<>>, temp_left |-> FALSE, exc |-> NoExc]

\* the implementations of TranscriptionService
TranscriptionServices == {"WhisperTranscriber", "GoogleSTTTranscriber"}

NoTranscription ==
    [called |-> FALSE, service |-> "none", env |-> [path |-> "none"],
     outcome |-> [kind |-> "none"]]

\* ----------------------------------------------------- config_manager.py
\* get_default_settings()
get_default_settings ==
    [notion_api_key |-> <<>>,
     notion_database_id |-> <<>>,
     transcription_service |-> <<"OpenAI Whisper">>,
     whisper_model_size |-> <<"base">>,
     google_stt_api_key_path |-> <<>>,
     gemini_api_key |-> <<>>,
     audio_input_folder |-> <<"~/Recordings">>]

\* final_settings = default_settings.copy(); final_settings.update(loaded)
Update(default_settings, loaded_settings) ==
    [k \in DOMAIN default_settings \cup DOMAIN loaded_settings |->
        IF k \in DOMAIN loaded_settings THEN loaded_settings[k]
        ELSE default_settings[k]]

\* the keys and values of the documents found in the settings file; the
\* last key is not one of the defaults
PersistedKeys ==
    {"notion_api_key", "whisper_model_size", "gemini_api_key",
     "azure_speech_key"}
PersistedValues == { <<>>, <<"small">> }

\* what load_settings finds: whether the settings directory can be made,
\* and the settings file: missing, unreadable, not JSON, JSON that is not an
\* object, or an object
LoadEnvs ==
    { [mkdir |-> m, file |-> f, document |-> << >>] :
          m \in {"ok", "OSError"},
          f \in {"missing", "unreadable", "not_json", "json_number"} }
    \cup
    { [mkdir |-> m, file |-> "object", document |-> d] :
          m \in {"ok", "OSError"},
          d \in UNION { [K -> PersistedValues] : K \in SUBSET PersistedKeys } }

\* config_manager.load_settings(): the dict it returns or the exception
\* that leaves it
load_settings(e) ==
    IF e.mkdir = "OSError"
    THEN [kind |-> "raise", settings |-> << >>,
          exc |-> [type |-> "PermissionError",
                   text |-> <<"[Errno 13] Permission denied: ">>]]
    ELSE IF e.file = "missing"
    THEN [kind |-> "return", settings |-> get_default_settings, exc |-> NoExc]
    ELSE IF e.file = "object"
    THEN [kind |-> "return",
          settings |-> Update(get_default_settings, e.document),
          exc |-> NoExc]
    ELSE LET raised == CASE e.file = "not_json" -> "JSONDecodeError"
                         [] e.file = "json_number" -> "TypeError"
                         [] OTHER -> "PermissionError"
         IN IF IsSubclass(raised, "JSONDecodeError")
               \/ IsSubclass(raised, "Exception")
            THEN [kind |-> "return", settings |-> get_default_settings,
                  exc |-> NoExc]
            ELSE [kind |-> "raise", settings |-> << >>,
                  exc |-> [type |-> raised, text |-> <<>>]]

NoLoad ==
    [called |-> FALSE, env |-> [mkdir |-> "none"],
     outcome |-> [kind |-> "none"]]

\* -------- agent.py, calendar_agent.py, obs_control.py, transcriber.py,
\* -------- summarizer.py, notion_writer.py
meeting_duration == 3600
PollBackoff == 300

\* the pages of the calendar database dated today, their start in seconds
\* after the time main_loop is started at: one that began before, one that
\* begins later and has an empty title
MeetingPool ==
    { [id |-> "a", title |-> <<"Standup">>, start |-> -500],
      [id |-> "b", title |-> <<>>, start |-> 1000] }

\* what the calendar database holds for today
Calendars ==
    { <<>> } \cup { <<m>> : m \in MeetingPool }
    \cup { c \in MeetingPool \X MeetingPool : c[1] # c[2] }

\* a dict without keys, a directory without files
NoFiles == [f \in {} |-> <<>>]

NoVideo == [of |-> "none", poll |-> 0]

\* a recording an earlier run of OBS left in recordings/
OldRecording == [of |-> "earlier", poll |-> 0]

\* what recordings/ and transcripts/ hold when main_loop starts
InitialFiles ==
    { [recordings |-> <<>>, transcripts |-> {}],
      [recordings |-> <<OldRecording>>, transcripts |-> {}] }

\* one invocation main_loop made for the current meeting; for
\* process_recording with the text written to the transcript file and with
\* what ffmpeg, the model and the file system did during it
Stage(op, ok, seconds) ==
    [op |-> op, ok |-> ok, seconds |-> seconds, ran |-> TRUE, text |-> <<>>,
     outcome |-> "none"]

\* start_obs_recording(): OBS cannot be launched, the websocket call fails,
\* or StartRecord is sent; whether OBS records afterwards
StartOutcomes == {"launch_failed", "connect_failed", "requested"}
start_obs_recording(e, recording) == recording \/ e = "requested"

\* stop_obs_recording(): the websocket call fails or StopRecord is sent;
\* whether OBS records afterwards, and whether it wrote a recording
StopOutcomes == {"connect_failed", "requested"}
stop_obs_recording(e, recording) ==
    [recording |-> recording /\ e # "requested",
     written |-> recording /\ e = "requested"]

\* sorted(recordings_dir.glob("*.mp4"), key=mtime, reverse=True)
video_files(files) == files

\* the sequence without the file
RECURSIVE Without(_, _)
Without(files, f) ==
    IF files = <<>> THEN <<>>
    ELSE (IF Head(files) = f THEN <<>> ELSE <<Head(files)>>)
         \o Without(Tail(files), f)

\* what ffmpeg, the Whisper model and the file system do during
\* process_recording
RecordingOutcomes ==
    { [kind |-> k, text |-> <<>>] : k \in {"ffmpeg_failed", "model_failed"} }
    \cup { [kind |-> "ok", text |-> t] :
              t \in { <<" ", "h", "i", "\n">>, <<>>, <<" ", "\n">> } }
    \cup { [kind |-> "move_failed", text |-> <<" ", "h", "i", "\n">>] }

\* process_recording without the test of transcript_path.exists()
process_recording_again(video, e, files, notes) ==
    IF e.kind \in {"ffmpeg_failed", "model_failed"}
    THEN [transcripts |-> notes, recordings |-> files, ran |-> TRUE,
          wrote |-> FALSE, text |-> <<>>]
    ELSE [transcripts |-> notes \cup {video},
          recordings |-> IF e.kind = "ok" THEN Without(files, video)
                         ELSE files,
          ran |-> TRUE, wrote |-> TRUE, text |-> e.text]

\* Transcriber.process_recording(video_path): the files of transcripts/
\* and recordings/ after it, whether it ran the conversion, and the text
\* it wrote to the transcript file
process_recording(video, e, files, notes) ==
    IF video \in notes
    THEN [transcripts |-> notes, recordings |-> files, ran |-> FALSE,
          wrote |-> FALSE, text |-> <<>>]
    ELSE IF e.kind \in {"ffmpeg_failed", "model_failed"}
    THEN [transcripts |-> notes, recordings |-> files, ran |-> TRUE,
          wrote |-> FALSE, text |-> <<>>]
    ELSE [transcripts |-> notes \cup {video},
          recordings |-> IF e.kind = "ok" THEN Without(files, video)
                         ELSE files,
          ran |-> TRUE, wrote |-> TRUE, text |-> e.text]

\* the keys of MeetingAnalyzer.analyze's prompts
Facets ==
    {"summary", "participants", "tasks", "deadlines", "decisions",
     "insights"}

\* the prompts whose model call raises during one analyze
FacetFailures == { {}, {"tasks"}, Facets }

\* MeetingAnalyzer.analyze(transcript_path) when the model calls of the
\* prompts in failed raise
analyze(transcript_path, failed) ==
    [key \in Facets |->
        IF key \in failed THEN <<"ERROR">>
        ELSE strip(<<" ", key, "\n">>)]

\* what output_path.write_text does in save_analysis, and what
\* notion.pages.create does in create_meeting_page
SaveOutcomes ==
    { NoExc,
      [type |-> "FileNotFoundError",
       text |-> <<"[Errno 2] No such file or directory: ">>] }
CreatePageOutcomes ==
    { NoExc,
      [type |-> "APIResponseError", text |-> <<"validation_error">>] }
PollOutcomes ==
    { NoExc,
      [type |-> "APIResponseError", text |-> <<"unauthorized">>] }

\* -------------------------------------------- responses of collaborators
Transcript == <<" ", "h", "i", "\n">>

\* what transcription_service.transcribe returns or raises
TranscribeResponses ==
    { [kind |-> "return", text |-> t, exc |-> NoExc] :
          t \in {Transcript, <<>>, <<" ", "\n">>} }
    \cup
    { [kind |-> "raise", text |-> <<>>, exc |-> e] :
          e \in { [type |-> "RuntimeError",
                   text |-> <<"ffmpeg conversion failed">>] } }

\* what summarizer_service.analyze_transcript returns or raises
AnalyzeResponses(f) ==
    { [kind |-> "return",
       data |-> [summary |-> <<"s", "u", "m">>,
                 action_items |-> << <<"d", "o">> >>,
                 original_filename |-> Name(f)],
       exc |-> NoExc],
      [kind |-> "raise",
       data |-> [summary |-> <<>>, action_items |-> <<>>,
                 original_filename |-> Name(f)],
       exc |-> [type |-> "UnboundLocalError",
                text |-> <<"local variable 'response' referenced">>]] }

\* what notion_handler.create_notion_page returns or raises, and whether
\* the remote service created a page during the call
PublishResponses ==
    { [kind |-> "return", text |-> create_notion_page(remote), exc |-> NoExc,
       page |-> remote.kind = "created"] :
          remote \in RemoteOutcomes }
    \cup
    { [kind |-> "raise", text |-> <<>>, page |-> FALSE,
       exc |-> [type |-> "TypeError",
                text |-> <<"'NoneType' object is not iterable">>]] }

\* ------------------------------------------------------- orchestrator.py
\* the except clauses of process_single_audio_file and process_folder
TranscriptionExcept == "Exception"
\* `except RuntimeError` in place of `except Exception` around the analysis
AnalysisExceptNarrow == "RuntimeError"

AnalysisExcept == "Exception"
PublishExcept == "Exception"
\* `except FileNotFoundError` alone: every other error of the lookup escapes
MetadataExceptNarrow == "FileNotFoundError"

MetadataExcept == "Exception"

\* result = {"file": str(audio_path), "status": "pending", ...}
PendingResult(f) ==
    [file |-> PathStr(f), status |-> "pending", message |-> <<>>, url |-> <<>>]

NoResult == [file |-> <<>>, status |-> "none", message |-> <<>>, url |-> <<>>]

\* the error branch that writes the message and leaves the status as it was
ErrorResultPending(f, message) == [PendingResult(f) EXCEPT !.message = message]

\* result["status"] = "error"; result["message"] = message
ErrorResult(f, message) ==
    [PendingResult(f) EXCEPT !.status = "error", !.message = message]

NoResponses ==
    [meta |-> Unasked, transcribe |-> Unasked, analyze |-> Unasked,
     publish |-> Unasked]

\* summary_data starting as {} and read with .get("summary", default)
InitialSummaryDataMissing ==
    [summary |-> <<"Summary not available.">>, action_items |-> <<>>]

\* summary_data = {"summary": "", "action_items": []}
InitialSummaryData == [summary |-> <<>>, action_items |-> <<>>]

\* the except branch that only logs and leaves the summary empty
AnalysisFailedSummaryBlank(e) == <<>>

\* the summary written when analyze_transcript raised e
AnalysisFailedSummary(e) == <<"[Analysis failed: ">> \o e.text \o <<"]">>

\* stage 2 of process_single_audio_file: the summary_data it leaves
Analysis(f, text, r) ==
    LET initial == InitialSummaryData IN
    IF ~summarizer_service
    THEN [kind |-> "ok", summary_data |-> initial, calls |-> <<>>,
          used |-> Unasked, exc |-> NoExc]
    ELSE LET call == << [op |-> "analyze_transcript", file |-> f,
                         transcript |-> text,
                         original_filename |-> Name(f)] >>
         IN IF r.kind = "return"
            THEN [kind |-> "ok",
                  summary_data |-> [summary |-> r.data.summary,
                                    action_items |-> r.data.action_items],
                  calls |-> call, used |-> r, exc |-> NoExc]
            ELSE IF IsSubclass(r.exc.type, AnalysisExcept)
            THEN [kind |-> "ok",
                  summary_data |->
                      [initial EXCEPT
                          !.summary = AnalysisFailedSummary(r.exc)],
                  calls |-> call, used |-> r, exc |-> NoExc]
            ELSE [kind |-> "raise", summary_data |-> initial,
                  calls |-> call, used |-> r, exc |-> r.exc]

\* stage 3 of process_single_audio_file: the result it leaves
Publishing(f, notion_date_iso, analysis, text, r) ==
    IF ~notion_handler
    THEN [kind |-> "return",
          result |-> ErrorResult(f, <<"NotionHandler not available or failed to initialize. Cannot create page.">>),
          calls |-> <<>>, used |-> Unasked, exc |-> NoExc]
    ELSE LET call == << [op |-> "create_notion_page", file |-> f,
                         title |-> Stem(f), date_iso |-> notion_date_iso,
                         summary |-> analysis.summary,
                         action_items |-> analysis.action_items,
                         transcript |-> text,
                         source_filename |-> Name(f)] >>
         IN IF r.kind = "return"
            THEN LET page_url_or_error == r.text IN
                 [kind |-> "return",
                  result |->
                      IF Contains(Https, page_url_or_error)
                      THEN [PendingResult(f) EXCEPT
                               !.status = "success",
                               !.url = page_url_or_error,
                               !.message = <<"Successfully processed and uploaded to Notion: ">>
                                               \o page_url_or_error]
                      ELSE ErrorResult(f, <<"Failed to create Notion page: ">>
                                              \o page_url_or_error),
                  calls |-> call, used |-> r, exc |-> NoExc]
            ELSE IF IsSubclass(r.exc.type, PublishExcept)
            THEN [kind |-> "return",
                  result |-> ErrorResult(f, <<"Failed to create Notion page due to unexpected error: ">>
                                                \o r.exc.text),
                  calls |-> call, used |-> r, exc |-> NoExc]
            ELSE [kind |-> "raise", result |-> NoResult, calls |-> call,
                  used |-> r, exc |-> r.exc]

\* the guard without its return: the item goes on without a transcript
UnavailableFallsThrough(f) ==
    [kind |-> "continue", result |-> PendingResult(f),
     transcript_text |-> <<>>, calls |-> <<>>, used |-> Unasked,
     exc |-> NoExc]

\* `if not self.transcription_service:` the error result returned at once
Unavailable(f) ==
    [kind |-> "return",
     result |-> ErrorResult(f, <<"Transcription service not available",
                                 " or failed to initialize.">>),
     transcript_text |-> <<>>, calls |-> <<>>, used |-> Unasked,
     exc |-> NoExc]

\* stage 1 of process_single_audio_file: the transcript or the error result
Transcription(f, r) ==
    IF ~transcription_service
    THEN Unavailable(f)
    ELSE LET call == << [op |-> "transcribe", file |-> f] >> IN
         IF r.kind = "raise"
         THEN IF IsSubclass(r.exc.type, TranscriptionExcept)
              THEN [kind |-> "return",
                    result |-> ErrorResult(f, <<"Transcription failed: ">>
                                                  \o r.exc.text),
                    transcript_text |-> <<>>, calls |-> call, used |-> r,
                    exc |-> NoExc]
              ELSE [kind |-> "raise", result |-> NoResult,
                    transcript_text |-> <<>>, calls |-> call, used |-> r,
                    exc |-> r.exc]
         ELSE LET text == r.text IN
              IF ~Truthy(text) \/ ~Truthy(strip(text))
              THEN [kind |-> "return",
                    result |-> ErrorResult(f, <<"Transcription resulted in empty text.">>),
                    transcript_text |-> text, calls |-> call,
                    used |-> r, exc |-> NoExc]
              ELSE [kind |-> "continue", result |-> PendingResult(f),
                    transcript_text |-> text, calls |-> call,
                    used |-> r, exc |-> NoExc]

\* Orchestrator.process_single_audio_file(audio_path, notion_date_iso) as a
\* whole, under the responses r of the three capabilities
process_single_audio_file(f, notion_date_iso, r) ==
    LET t == Transcription(f, r.transcribe) IN
    IF t.kind # "continue"
    THEN [kind |-> t.kind, result |-> t.result, exc |-> t.exc]
    ELSE LET a == Analysis(f, t.transcript_text, r.analyze) IN
         IF a.kind = "raise"
         THEN [kind |-> "raise", result |-> NoResult, exc |-> a.exc]
         ELSE LET p == Publishing(f, notion_date_iso, a.summary_data,
                                  t.transcript_text, r.publish)
              IN [kind |-> p.kind, result |-> p.result, exc |-> p.exc]

\* the date-resolution block of process_folder's loop body for file f whose
\* file-system state is st
ResolveDate(f, st) ==
    IF DOMAIN date_mapping # {} /\ f \in DOMAIN date_mapping
    THEN [kind |-> "date", date |-> date_mapping[f], record |-> NoResult,
          calls |-> <<>>, used |-> Unasked, exc |-> NoExc]
    ELSE LET call == << [op |-> "get_file_metadata", file |-> f] >>
             m == get_file_metadata(f, st)
         IN IF m.kind = "return"
            THEN [kind |-> "date",
                  date |-> SplitFirst(m.metadata.modification_date_iso, "T"),
                  record |-> NoResult, calls |-> call, used |-> st,
                  exc |-> NoExc]
            ELSE IF IsSubclass(m.exc.type, "FileNotFoundError")
            THEN [kind |-> "skip", date |-> <<>>,
                  record |-> ErrorResult(f, <<"File metadata not found.">>),
                  calls |-> call, used |-> st, exc |-> NoExc]
            ELSE IF IsSubclass(m.exc.type, MetadataExcept)
            THEN [kind |-> "skip", date |-> <<>>,
                  record |-> ErrorResult(f, <<"Error getting metadata date: ">>
                                                \o m.exc.text),
                  calls |-> call, used |-> st, exc |-> NoExc]
            ELSE [kind |-> "raise", date |-> <<>>, record |-> NoResult,
                  calls |-> call, used |-> st, exc |-> m.exc]

\* lines 196-219 of process_folder: the resolved date, or the error record
\* appended for a skipped item
DateStage(f, st) ==
    LET d == ResolveDate(f, st) IN
    IF d.kind = "date" /\ ~Truthy(d.date)
    THEN [d EXCEPT !.kind = "skip",
                   !.record = ErrorResult(f, <<"Could not determine date for Notion page.">>)]
    ELSE d

\* one whole iteration of process_folder's for loop: the record it appends
LoopBody(f, r) ==
    LET d == DateStage(f, r.meta) IN
    IF d.kind # "date"
    THEN [kind |-> d.kind, record |-> d.record, exc |-> d.exc]
    ELSE LET s == process_single_audio_file(f, d.date, r) IN
         [kind |-> s.kind, record |-> s.result, exc |-> s.exc]

\* a loop that gives up at the first failed item
AfterItemHalt(status) == IF status = "error" THEN "done" ELSE "loop"

\* where the for loop goes after an item's record was appended: `continue`
\* after a skipped item, the next iteration after a processed one
AfterItem(status) == "loop"

\* the folder given to process_folder: a directory holding the files fs
RECURSIVE FileEntries(_)
FileEntries(fs) ==
    IF fs = <<>> THEN <<>>
    ELSE <<FileEntry(Head(fs), Name(Head(fs)))>> \o FileEntries(Tail(fs))

Directory(fs) == [is_dir |-> TRUE, entries |-> FileEntries(fs)]

\* the abort test with its condition never true
NoServicesNever == FALSE

\* not self.transcription_service and not self.notion_handler
\* and not self.summarizer_service
NoServices == ~transcription_service /\ ~notion_handler /\ ~summarizer_service

AbortRecord ==
    [file |-> <<>>, status |-> "error",
     message |-> <<"All services failed to initialize.">>, url |-> <<>>]

\* main's tally over the results process_folder returned
successful_uploads(rs) ==
    Cardinality({i \in DOMAIN rs : rs[i].status = "success"})
failed_processing(rs) ==
    Cardinality({i \in DOMAIN rs : rs[i].status # "success"})

MappedDate == <<"2", "0", "2", "5", "-", "0", "1", "-", "0", "1">>

\* the date_mapping arguments tried for a folder of n files
DateMappings(n) == UNION { [S -> {MappedDate, <<>>}] : S \in SUBSET (1..n) }

\* ------------------------------------- Orchestrator._initialize_services
\* dict.get(key, default)
Get(d, key, default) == IF key \in DOMAIN d THEN d[key] ELSE default

\* the settings dicts an Orchestrator is built from; a dict without the
\* "transcription_service" key selects the default service
Credentials ==
    { [gemini_api_key |-> g, notion_api_key |-> n[1],
       notion_database_id |-> n[2]] :
          g \in {<<>>, <<"gemini-key">>},
          n \in { <<<<"notion-key">>, <<"db-id">>>>,
                  <<<<"notion-key">>, <<>>>>,
                  <<<<>>, <<"db-id">>>> } }

WithService(d, name) ==
    [transcription_service |-> name, gemini_api_key |-> d.gemini_api_key,
     notion_api_key |-> d.notion_api_key,
     notion_database_id |-> d.notion_database_id]

Settings ==
    Credentials
    \cup { WithService(d, <<"Google Cloud Speech-to-Text">>) : d \in Credentials }
    \cup { WithService(d, <<"Azure Speech">>) : d \in Credentials }

\* what a constructor does when it is called: the object or the exception
Constructed == [kind |-> "ok", exc |-> NoExc]

ConstructionFailed(text) ==
    [kind |-> "raise", exc |-> [type |-> "RuntimeError", text |-> text]]

Constructors ==
    [ transcription :
          {Constructed,
           ConstructionFailed(<<"Whisper library is not available. Please install openai-whisper.">>)},
      analysis :
          {Constructed,
           ConstructionFailed(<<"Failed to configure Google Generative AI: ">>)},
      publishing :
          {Constructed,
           ConstructionFailed(<<"Notion API Error: Unauthorized. Check your API key. Details: ">>)} ]

Capabilities == {"transcription", "analysis", "publishing"}

\* the except clauses around the three constructor calls
TranscriptionInitExcept == "Exception"
\* `except ValueError` in place of `except Exception` around SummarizerService
SummarizerInitExceptNarrow == "ValueError"

SummarizerInitExcept == "Exception"
NotionInitExcept == "Exception"

\* one guarded constructor call: wanted says the settings ask for the
\* capability, c is what its constructor does, caught the except clause
Bind(wanted, c, caught) ==
    IF ~wanted THEN [bound |-> FALSE, called |-> FALSE, exc |-> NoExc]
    ELSE IF c.kind = "ok"
    THEN [bound |-> TRUE, called |-> TRUE, exc |-> NoExc]
    ELSE IF IsSubclass(c.exc.type, caught)
    THEN [bound |-> FALSE, called |-> TRUE, exc |-> NoExc]
    ELSE [bound |-> FALSE, called |-> TRUE, exc |-> c.exc]

Unbound == [bound |-> FALSE, called |-> FALSE, exc |-> NoExc]

\* Orchestrator._initialize_services over settings s when the constructors
\* behave as c: the three bindings, the constructors called, and the
\* exception that leaves it, if any
initialize_services(s, c) ==
    LET service_name ==
            Get(s, "transcription_service", <<"OpenAI Whisper">>)
        service_class ==
            IF service_name = <<"OpenAI Whisper">> THEN "WhisperTranscriber"
            ELSE IF service_name = <<"Google Cloud Speech-to-Text">>
            THEN "GoogleSTTTranscriber" ELSE "None"
        t == Bind(service_class # "None", c.transcription,
                  TranscriptionInitExcept)
        gemini_api_key == Get(s, "gemini_api_key", <<>>)
        a == IF t.exc # NoExc THEN Unbound
             ELSE Bind(Truthy(gemini_api_key), c.analysis,
                       SummarizerInitExcept)
        notion_api_key == Get(s, "notion_api_key", <<>>)
        notion_database_id == Get(s, "notion_database_id", <<>>)
        n == IF t.exc # NoExc \/ a.exc # NoExc THEN Unbound
             ELSE Bind(Truthy(notion_api_key) /\ Truthy(notion_database_id),
                       c.publishing, NotionInitExcept)
    IN [bound |-> [transcription |-> t.bound, analysis |-> a.bound,
                   publishing |-> n.bound],
        called |-> [transcription |-> t.called, analysis |-> a.called,
                    publishing |-> n.called],
        exc |-> IF t.exc # NoExc THEN t.exc
                ELSE IF a.exc # NoExc THEN a.exc ELSE n.exc]

\* ------------------------------------------------------------------ Init
\* the orchestrator after __init__ over some settings: each capability bound
\* or None as _initialize_services left it
Init ==
    /\ \E s \in Settings : \E c \in Constructors :
          LET r == initialize_services(s, c) IN
          /\ settings = s
          /\ constructors = c
          /\ transcription_service = r.bound.transcription
          /\ summarizer_service = r.bound.analysis
          /\ notion_handler = r.bound.publishing
          /\ propagated = r.exc
          /\ pc = IF r.exc = NoExc THEN "idle" ELSE "crashed"
    /\ run = 1
    /\ advanced = {}
    /\ passed = {}
    /\ entry = "none"
    /\ folder = <<>>
    /\ date_mapping = <<>>
    /\ audio_files = <<>>
    /\ idx = 0
    /\ notion_page_date_iso = <<>>
    /\ transcript_text = <<>>
    /\ summary_data = InitialSummaryData
    /\ result = NoResult
    /\ calls = <<>>
    /\ resp = NoResponses
    /\ results = <<>>
    /\ scan = NoScan
    /\ analyzed = NoAnalysis
    /\ created = NoPage
    /\ handler = NoHandler
    /\ transcribed = NoTranscription
    /\ loaded = NoLoad
    /\ loop_pc = "off"
    /\ now = 0
    /\ polls = 0
    /\ calendar = <<>>
    /\ meetings = <<>>
    /\ position = 0
    /\ obs_recording = FALSE
    /\ recordings = <<>>
    /\ transcripts = {}
    /\ video_path = NoVideo
    /\ meeting_analysis = NoFiles
    /\ stages = <<>>
    /\ captured = {}
    /\ loop_exc = NoExc
    /\ open_captures = 0

\* --------------------------------------------------------------- actions
services == <<settings, constructors, transcription_service,
              summarizer_service, notion_handler>>
item == <<notion_page_date_iso, transcript_text, summary_data, result, calls,
          resp>>

\* results = [file_result] in place of results.append(file_result)
ReturnReplacing(res) ==
    /\ result' = res
    /\ results' = IF entry = "folder" THEN <<res>> ELSE results
    /\ pc' = IF entry = "folder" THEN AfterItem(res.status) ELSE "done"
    /\ UNCHANGED propagated

\* process_single_audio_file returns res: process_folder appends it and goes
\* on with the loop, a direct caller receives it
Return(res) ==
    /\ result' = res
    /\ IF entry = "folder"
       THEN /\ results' = Append(results, res)
            /\ pc' = AfterItem(res.status)
       ELSE /\ results' = results
            /\ pc' = "done"
    /\ UNCHANGED propagated

\* an exception leaves the entry point
Raise(exc) ==
    /\ propagated' = exc
    /\ pc' = "crashed"
    /\ UNCHANGED <<result, results>>

\* process_folder up to the for loop: the all-absent abort, the scan
StartFolder ==
    /\ pc = "idle"
    /\ \E n \in 0..MaxFiles :
         /\ folder' = [i \in 1..n |-> i]
         /\ \E dm \in DateMappings(n) : date_mapping' = dm
         /\ IF NoServices
            THEN /\ results' = <<AbortRecord>>
                 /\ audio_files' = <<>>
                 /\ scan' = NoScan
                 /\ pc' = "done"
            ELSE /\ scan' = [called |-> TRUE, directory |-> Directory(folder'),
                             files |-> get_audio_files(Directory(folder'))]
                 /\ audio_files' = scan'.files
                 /\ results' = <<>>
                 /\ pc' = IF Truthy(audio_files') THEN "loop" ELSE "done"
    /\ entry' = "folder"
    /\ idx' = 0
    /\ UNCHANGED <<direct_calls, analyzed, services, run, advanced, passed, item, propagated>>

\* the for loop takes the next file
NextFile ==
    /\ pc = "loop"
    /\ idx < Len(audio_files)
    /\ idx' = idx + 1
    /\ pc' = "date"
    /\ notion_page_date_iso' = <<>>
    /\ transcript_text' = <<>>
    /\ summary_data' = InitialSummaryData
    /\ result' = NoResult
    /\ calls' = <<>>
    /\ resp' = NoResponses
    /\ UNCHANGED <<direct_calls, analyzed, scan, services, run, advanced, passed, entry, folder,
                   date_mapping, audio_files, results, propagated>>

\* the for loop is exhausted: process_folder returns results
FinishFolder ==
    /\ pc = "loop"
    /\ idx = Len(audio_files)
    /\ pc' = "done"
    /\ UNCHANGED <<direct_calls, analyzed, scan, services, run, advanced, passed, entry, folder,
                   date_mapping, audio_files, idx, item, results, propagated>>

\* process_folder resolves the date of the current file
DateStep ==
    /\ pc = "date"
    /\ \E st \in FileStates :
         LET f == audio_files[idx]
             d == DateStage(f, st)
         IN /\ calls' = calls \o d.calls
            /\ resp' = [resp EXCEPT !.meta = d.used]
            /\ notion_page_date_iso' = d.date
            /\ CASE d.kind = "date" ->
                      /\ pc' = "transcribe"
                      /\ UNCHANGED <<result, results, propagated>>
                 [] d.kind = "skip" ->
                      /\ results' = Append(results, d.record)
                      /\ pc' = AfterItem(d.record.status)
                      /\ UNCHANGED <<result, propagated>>
                 [] OTHER -> Raise(d.exc)
    /\ UNCHANGED <<direct_calls, analyzed, scan, services, run, advanced, passed, entry, folder,
                   date_mapping, audio_files, idx, transcript_text,
                   summary_data>>

\* a direct call of process_single_audio_file(audio_path, notion_date_iso)
CallSingle ==
    /\ pc = "idle"
    /\ \E f \in FileIds :
         /\ folder' = <<f>>
         /\ audio_files' = <<f>>
    /\ idx' = 1
    /\ entry' = "single"
    /\ notion_page_date_iso' = MappedDate
    /\ pc' = "transcribe"
    /\ UNCHANGED <<direct_calls, analyzed, scan, services, run, advanced, passed, date_mapping,
                   transcript_text, summary_data, result, calls, resp,
                   results, propagated>>

\* stage 1 of process_single_audio_file
TranscribeStep ==
    /\ pc = "transcribe"
    /\ \E r \in TranscribeResponses :
         LET f == audio_files[idx]
             t == Transcription(f, r)
         IN /\ calls' = calls \o t.calls
            /\ resp' = [resp EXCEPT !.transcribe = t.used]
            /\ transcript_text' = t.transcript_text
            /\ CASE t.kind = "continue" ->
                      /\ pc' = "analyze"
                      /\ passed' = passed \cup {f}
                      /\ UNCHANGED <<result, results, propagated>>
                 [] t.kind = "return" ->
                      /\ Return(t.result)
                      /\ UNCHANGED passed
                 [] OTHER ->
                      /\ Raise(t.exc)
                      /\ UNCHANGED passed
    /\ UNCHANGED <<direct_calls, analyzed, scan, services, run, advanced, entry, folder, date_mapping,
                   audio_files, idx, notion_page_date_iso, summary_data>>

\* stage 2 of process_single_audio_file
AnalyzeStep ==
    /\ pc = "analyze"
    /\ \E r \in AnalyzeResponses(audio_files[idx]) :
         LET a == Analysis(audio_files[idx], transcript_text, r) IN
            /\ calls' = calls \o a.calls
            /\ resp' = [resp EXCEPT !.analyze = a.used]
            /\ summary_data' = a.summary_data
            /\ IF a.kind = "ok"
               THEN /\ pc' = "publish"
                    /\ UNCHANGED <<result, results, propagated>>
               ELSE Raise(a.exc)
    /\ UNCHANGED <<direct_calls, analyzed, scan, services, run, advanced, passed, entry, folder,
                   date_mapping, audio_files, idx, notion_page_date_iso,
                   transcript_text>>

\* stage 3 of process_single_audio_file
PublishStep ==
    /\ pc = "publish"
    /\ \E r \in PublishResponses :
         LET p == Publishing(audio_files[idx], notion_page_date_iso,
                             summary_data, transcript_text, r)
         IN /\ calls' = calls \o p.calls
            /\ resp' = [resp EXCEPT !.publish = p.used]
            /\ IF p.kind = "return" THEN Return(p.result) ELSE Raise(p.exc)
    /\ UNCHANGED <<direct_calls, analyzed, scan, services, run, advanced, passed, entry, folder,
                   date_mapping, audio_files, idx, notion_page_date_iso,
                   transcript_text, summary_data>>

\* the program is started again with the same settings
ReRun ==
    /\ pc = "done"
    /\ run < MaxRuns
    /\ run' = run + 1
    /\ advanced' = IF entry = "folder" THEN advanced \cup passed ELSE advanced
    /\ passed' = {}
    /\ entry' = "none"
    /\ pc' = "idle"
    /\ folder' = <<>>
    /\ date_mapping' = <<>>
    /\ audio_files' = <<>>
    /\ idx' = 0
    /\ notion_page_date_iso' = <<>>
    /\ transcript_text' = <<>>
    /\ summary_data' = InitialSummaryData
    /\ result' = NoResult
    /\ calls' = <<>>
    /\ resp' = NoResponses
    /\ results' = <<>>
    /\ scan' = NoScan
    /\ UNCHANGED <<direct_calls, analyzed, services, propagated>>

Next ==
    \/ StartFolder
    \/ NextFile
    \/ FinishFolder
    \/ DateStep
    \/ CallSingle
    \/ TranscribeStep
    \/ AnalyzeStep
    \/ PublishStep

Spec == Init /\ [][Next]_vars

\* the same program followed over up to MaxRuns invocations
NextRerun == Next \/ ReRun

SpecRerun == Init /\ [][NextRerun]_vars

\* ------------------------------------------- the modules called directly
\* an orchestrator whose three capabilities were all constructed, left idle
\* while the functions of the modules are called on their own
InitDirect ==
    /\ Init
    /\ "transcription_service" \notin DOMAIN settings
    /\ Truthy(settings.gemini_api_key)
    /\ Truthy(settings.notion_api_key) /\ Truthy(settings.notion_database_id)
    /\ \A x \in Capabilities : constructors[x] = Constructed

orchestrator ==
    <<services, run, advanced, passed, entry, pc, folder, date_mapping,
      audio_files, idx, item, results, propagated>>

\* input_manager.get_audio_files(folder_path_str) called on some path; the
\* function keeps no state, so one call per behaviour is followed
ScanFolder ==
    /\ ~scan.called
    /\ \E d \in Directories :
          scan' = [called |-> TRUE, directory |-> d,
                   files |-> get_audio_files(d)]
    /\ UNCHANGED <<orchestrator, analyzed, direct_calls>>

SpecScan == InitDirect /\ [][ScanFolder]_vars

\* SummarizerService.analyze_transcript called on some transcript, the
\* model answering the two prompts in some way; the service keeps no state
\* between calls, so one call per behaviour is followed
AnalyzeTranscript ==
    /\ ~analyzed.called
    /\ \E t \in Transcripts : \E f \in Filenames :
       \E rs \in SummaryReplies : \E ra \in ActionItemReplies :
          analyzed' = [called |-> TRUE, transcript |-> t,
                       original_filename |-> f,
                       outcome |-> analyze_transcript(
                                       t, f, [summary |-> rs,
                                              action_items |-> ra])]
    /\ UNCHANGED <<orchestrator, scan, direct_calls>>

SpecSummarizer == InitDirect /\ [][AnalyzeTranscript]_vars

\* NotionHandler.create_notion_page called on some page content, the remote
\* service answering in some way; one call per behaviour is followed
CreateNotionPage ==
    /\ ~created.called
    /\ \E title \in Titles : \E summary \in Summaries :
       \E action_items \in ActionItemLists :
       \E transcript \in PublishedTranscripts :
       \E remote \in PagesCreateOutcomes :
          created' = [called |-> TRUE, remote |-> remote,
                      args |-> [summary |-> summary,
                                action_items |-> action_items,
                                transcript |-> transcript],
                      outcome |-> NotionHandler_create_notion_page(
                                      title, MappedDate, summary,
                                      action_items, transcript,
                                      <<"f", ".", "w", "a", "v">>, remote)]
    /\ UNCHANGED <<orchestrator, scan, analyzed, handler, transcribed, loaded,
                   scheduler>>

SpecNotion == InitDirect /\ [][CreateNotionPage]_vars

\* NotionHandler(api_key, database_id) constructed on its own next to an
\* orchestrator built from any of the settings; one construction per
\* behaviour is followed
ConstructHandler ==
    /\ ~handler.called
    /\ \E api_key \in ApiKeys : \E database_id \in DatabaseIds :
       \E client \in BOOLEAN : \E retrieve \in RetrieveOutcomes :
          handler' = [called |-> TRUE, api_key |-> api_key,
                      database_id |-> database_id, Client |-> client,
                      outcome |-> NotionHandler_init(api_key, database_id,
                                                     client, retrieve)]
    /\ UNCHANGED <<orchestrator, scan, analyzed, created, transcribed, loaded,
                   scheduler>>

SpecHandler == Init /\ [][ConstructHandler]_vars

\* transcribe(audio_path) of one of the transcription services called on
\* some path; one call per behaviour is followed
TranscribeFile ==
    /\ ~transcribed.called
    /\ \E service \in TranscriptionServices : \E e \in TranscribeEnvs :
          transcribed' =
              [called |-> TRUE, service |-> service, env |-> e,
               outcome |-> IF service = "WhisperTranscriber"
                           THEN WhisperTranscriber_transcribe(e)
                           ELSE GoogleSTTTranscriber_transcribe(e)]
    /\ UNCHANGED <<orchestrator, scan, analyzed, created, handler, loaded,
                   scheduler>>

SpecTranscribe == InitDirect /\ [][TranscribeFile]_vars

\* config_manager.load_settings called with the settings directory and file
\* in some condition; one call per behaviour is followed
LoadSettings ==
    /\ ~loaded.called
    /\ \E e \in LoadEnvs :
          loaded' = [called |-> TRUE, env |-> e, outcome |-> load_settings(e)]
    /\ UNCHANGED <<orchestrator, scan, analyzed, created, handler,
                   transcribed, scheduler>>

SpecConfig == InitDirect /\ [][LoadSettings]_vars

\* --------------------------------------------------- agent.main_loop
others == <<orchestrator, scan, analyzed, created, handler, transcribed,
            loaded>>

\* an exception leaves main_loop
Crash(exc) ==
    /\ loop_exc' = exc
    /\ loop_pc' = "crashed"

\* python agent.py: main_loop builds its Transcriber and MeetingAnalyzer
\* and enters `while True`
StartLoop ==
    /\ loop_pc = "off"
    /\ \E c \in Calendars : \E fs \in InitialFiles :
          /\ calendar' = c
          /\ recordings' = fs.recordings
          /\ transcripts' = fs.transcripts
    /\ loop_pc' = "poll"
    /\ UNCHANGED <<others, open_captures, now, polls, meetings, position, obs_recording,
                   video_path, meeting_analysis, stages, captured, loop_exc>>

\* meetings = get_todays_meetings() and the test of `not meetings`
Poll ==
    /\ loop_pc = "poll"
    /\ polls < MaxPolls
    /\ polls' = polls + 1
    /\ stages' = <<>>
    /\ \E e \in PollOutcomes :
          IF e # NoExc
          THEN /\ Crash(e)
               /\ UNCHANGED <<meetings, position>>
          ELSE /\ meetings' = calendar
               /\ position' = IF calendar = <<>> THEN 0 ELSE 1
               /\ loop_pc' = IF calendar = <<>> THEN "backoff" ELSE "wait"
               /\ UNCHANGED loop_exc
    /\ UNCHANGED <<others, open_captures, now, calendar, obs_recording, recordings,
                   transcripts, video_path, meeting_analysis, captured>>

\* the while loop going round without its sleep
BackoffSkipped ==
    /\ loop_pc = "backoff"
    /\ loop_pc' = "poll"
    /\ UNCHANGED <<others, open_captures, now, polls, calendar, meetings,
                   position, obs_recording, recordings, transcripts,
                   video_path, meeting_analysis, stages, captured, loop_exc>>

\* time.sleep(300), after an empty poll and after the for loop
Backoff ==
    /\ loop_pc = "backoff"
    /\ now' = now + PollBackoff
    /\ loop_pc' = "poll"
    /\ UNCHANGED <<others, open_captures, polls, calendar, meetings, position,
                   obs_recording, recordings, transcripts, video_path,
                   meeting_analysis, stages, captured, loop_exc>>

\* the head of the for body without the sleep: the capture is started at once
WaitSkipped ==
    /\ loop_pc = "wait"
    /\ loop_pc' = "start"
    /\ UNCHANGED <<others, open_captures, now, stages, polls, calendar,
                   meetings, position, obs_recording, recordings,
                   transcripts, video_path, meeting_analysis, captured,
                   loop_exc>>

\* the head of the for body: the start time is read and, when it lies
\* ahead, slept towards
Wait ==
    /\ loop_pc = "wait"
    /\ LET diff == meetings[position].start - now IN
       IF diff > 0
       THEN /\ now' = now + diff
            /\ stages' = Append(stages, Stage("sleep", TRUE, diff))
       ELSE UNCHANGED <<now, stages>>
    /\ loop_pc' = "start"
    /\ UNCHANGED <<others, open_captures, polls, calendar, meetings, position,
                   obs_recording, recordings, transcripts, video_path,
                   meeting_analysis, captured, loop_exc>>

\* start_obs_recording()
StartCapture ==
    /\ loop_pc = "start"
    /\ \E e \in StartOutcomes :
          /\ obs_recording' = start_obs_recording(e, obs_recording)
          /\ stages' = Append(stages, Stage("start_obs_recording",
                                            e = "requested", 0))
    /\ open_captures' = open_captures + 1
    /\ loop_pc' = "recording"
    /\ UNCHANGED <<others, now, polls, calendar, meetings, position,
                   recordings, transcripts, video_path, meeting_analysis,
                   captured, loop_exc>>

\* the capture stopped right after it was started, without the sleep
RecordSkipped ==
    /\ loop_pc = "recording"
    /\ loop_pc' = "stop"
    /\ UNCHANGED <<others, open_captures, now, stages, polls, calendar,
                   meetings, position, obs_recording, recordings,
                   transcripts, video_path, meeting_analysis, captured,
                   loop_exc>>

\* time.sleep(meeting_duration)
Record ==
    /\ loop_pc = "recording"
    /\ now' = now + meeting_duration
    /\ stages' = Append(stages, Stage("sleep", TRUE, meeting_duration))
    /\ loop_pc' = "stop"
    /\ UNCHANGED <<others, open_captures, polls, calendar, meetings, position,
                   obs_recording, recordings, transcripts, video_path,
                   meeting_analysis, captured, loop_exc>>

\* stop_obs_recording(): a recording OBS wrote is the latest file
StopCapture ==
    /\ loop_pc = "stop"
    /\ \E e \in StopOutcomes :
          LET r == stop_obs_recording(e, obs_recording) IN
          /\ obs_recording' = r.recording
          /\ recordings' =
                 IF r.written
                 THEN <<[of |-> meetings[position].id, poll |-> polls]>>
                          \o recordings
                 ELSE recordings
          /\ stages' = Append(stages, Stage("stop_obs_recording",
                                            e = "requested", 0))
    /\ captured' = captured \cup
                       {[id |-> meetings[position].id, poll |-> polls]}
    /\ open_captures' = open_captures - 1
    /\ loop_pc' = "locate"
    /\ UNCHANGED <<others, now, polls, calendar, meetings, position,
                   transcripts, video_path, meeting_analysis, loop_exc>>

\* the latest *.mp4 of recordings/, `continue` when there is none
Locate ==
    /\ loop_pc = "locate"
    /\ IF video_files(recordings) = <<>>
       THEN /\ loop_pc' = "next"
            /\ stages' = Append(stages, Stage("glob", FALSE, 0))
            /\ UNCHANGED video_path
       ELSE /\ video_path' = video_files(recordings)[1]
            /\ loop_pc' = "transcribe"
            /\ stages' = Append(stages, Stage("glob", TRUE, 0))
    /\ UNCHANGED <<others, open_captures, now, polls, calendar, meetings, position,
                   obs_recording, recordings, transcripts, meeting_analysis,
                   captured, loop_exc>>

\* transcriber.process_recording(video_path) and the test of the transcript
\* file, `continue` when it does not exist
ProcessRecording ==
    /\ loop_pc = "transcribe"
    /\ \E e \in RecordingOutcomes :
          LET r == process_recording(video_path, e, recordings, transcripts)
          IN
          /\ transcripts' = r.transcripts
          /\ recordings' = r.recordings
          /\ stages' = Append(stages,
                              [Stage("process_recording",
                                     video_path \in r.transcripts, 0)
                                  EXCEPT !.ran = r.ran, !.text = r.text,
                                         !.outcome = IF r.ran THEN e.kind
                                                     ELSE "none"])
          /\ loop_pc' = IF video_path \in r.transcripts
                        THEN "analyze" ELSE "next"
    /\ UNCHANGED <<others, open_captures, now, polls, calendar, meetings, position,
                   obs_recording, video_path, meeting_analysis, captured,
                   loop_exc>>

\* analysis = analyzer.analyze(transcript_path)
Analyze ==
    /\ loop_pc = "analyze"
    /\ \E failed \in FacetFailures :
          /\ meeting_analysis' = analyze(video_path, failed)
          /\ stages' = Append(stages, Stage("analyze", failed = {}, 0))
    /\ loop_pc' = "save"
    /\ UNCHANGED <<others, open_captures, now, polls, calendar, meetings, position,
                   obs_recording, recordings, transcripts, video_path,
                   captured, loop_exc>>

\* analyzer.save_analysis(analysis, analysis_path)
SaveAnalysis ==
    /\ loop_pc = "save"
    /\ \E e \in SaveOutcomes :
          /\ stages' = Append(stages, Stage("save_analysis", e = NoExc, 0))
          /\ IF e = NoExc
             THEN loop_pc' = "publish" /\ UNCHANGED loop_exc
             ELSE Crash(e)
    /\ UNCHANGED <<others, open_captures, now, polls, calendar, meetings, position,
                   obs_recording, recordings, transcripts, video_path,
                   meeting_analysis, captured>>

\* create_meeting_page(meeting_data, analysis), the end of the for body
CreateMeetingPage ==
    /\ loop_pc = "publish"
    /\ \E e \in CreatePageOutcomes :
          /\ stages' = Append(stages,
                              Stage("create_meeting_page", e = NoExc, 0))
          /\ IF e = NoExc
             THEN loop_pc' = "next" /\ UNCHANGED loop_exc
             ELSE Crash(e)
    /\ UNCHANGED <<others, open_captures, now, polls, calendar, meetings, position,
                   obs_recording, recordings, transcripts, video_path,
                   meeting_analysis, captured>>

\* the for loop goes on to the next meeting, or ends; video_path and
\* analysis are assigned again before they are next read
NextMeeting ==
    /\ loop_pc = "next"
    /\ IF position < Len(meetings)
       THEN /\ position' = position + 1
            /\ loop_pc' = "wait"
            /\ stages' = <<>>
       ELSE /\ loop_pc' = "backoff"
            /\ UNCHANGED <<position, stages>>
    /\ video_path' = NoVideo
    /\ meeting_analysis' = NoFiles
    /\ UNCHANGED <<others, open_captures, now, polls, calendar, meetings, obs_recording,
                   recordings, transcripts, captured, loop_exc>>

NextLoop ==
    \/ StartLoop
    \/ Poll
    \/ Backoff
    \/ Wait
    \/ StartCapture
    \/ Record
    \/ StopCapture
    \/ Locate
    \/ ProcessRecording
    \/ Analyze
    \/ SaveAnalysis
    \/ CreateMeetingPage
    \/ NextMeeting

SpecScheduler == InitDirect /\ [][NextLoop]_vars

\* main_loop is one sequential thread: the statement it stands at is executed
\* once the sleep or the call before it has returned
SpecSchedulerLive == SpecScheduler /\ WF_vars(NextLoop)

\* ================================================================ claims
\* process_single_audio_file has returned an outcome for the current item
Returned == result.status # "none"

\* number of calls of collaborator operation op made for the current item
CallCount(op) == Cardinality({i \in DOMAIN calls : calls[i].op = op})

\* the text t occurs in the text s
Occurs(t, s) ==
    \E i \in 1..(Len(s) - Len(t) + 1) :
        \A j \in 1..Len(t) : s[i + j - 1] = t[j]

\* the text t consists of whitespace only (or is empty)
IsBlank(t) == \A i \in DOMAIN t : t[i] \in {" ", "\n", "\t"}

SomeServiceBound ==
    transcription_service \/ summarizer_service \/ notion_handler

\* results holds one record per file of the folder, in the folder's order
OneRecordPerFile ==
    /\ Len(results) = Len(folder)
    /\ \A i \in DOMAIN results : results[i].file = PathStr(folder[i])

\* C1 as stated: a finished process_folder run returns exactly one record per
\* supported audio file of the folder, whichever capabilities are bound.
C1_AsStated ==
    (entry = "folder" /\ pc = "done") => OneRecordPerFile

\* C1 amended: a process_folder run is never left by an exception; when at
\* least one capability is bound the returned list holds exactly one record
\* per supported audio file of the folder, naming that file, and no other;
\* when none is bound the list is the single abort record with an empty file.
C1_OneOutcomePerFile ==
    entry = "folder" =>
        /\ pc # "crashed"
        /\ pc = "done" =>
              IF SomeServiceBound THEN OneRecordPerFile
              ELSE results = <<AbortRecord>>

\* a finished run over two or more files where one failed and one succeeded
C1_Witness ==
    /\ entry = "folder" /\ pc = "done" /\ Len(folder) >= 2
    /\ \E i, j \in DOMAIN results :
          results[i].status = "error" /\ results[j].status = "success"

\* the outcome file f receives when it is the only file of the folder and
\* the collaborators answer as they did in this run
AloneOutcome(f) == LoopBody(f, resp).record

\* C2: once an earlier file of the run has failed, every later file is still
\* taken by the loop, its record is appended at its own position and equals
\* the outcome it receives alone, and the run ends only after the last file.
C2_FailureDoesNotHaltLaterFiles ==
    (entry = "folder" /\ \E i \in DOMAIN audio_files :
                            i <= Len(results) /\ results[i].status = "error")
    =>
        /\ pc # "crashed"
        /\ (pc = "loop" /\ Len(results) > 1) =>
              /\ Len(results) = idx
              /\ results[idx] = AloneOutcome(audio_files[idx])
        /\ pc = "done" => Len(results) = Len(audio_files)

\* the first file failed and the second was published
C2_Witness ==
    /\ entry = "folder" /\ pc = "loop" /\ idx = 2 /\ Len(results) = 2
    /\ results[1].status = "error"
    /\ results[2].status = "success"

\* C3: no exception raised by a capability leaves process_single_audio_file;
\* when transcribe or create_notion_page raised, the outcome returned is an
\* error whose message carries the exception text.
C3_NoExceptionPropagates ==
    /\ pc # "crashed"
    /\ propagated = NoExc
    /\ (pc \in {"loop", "done"} /\ resp.transcribe.kind = "raise") =>
          /\ Returned
          /\ result.status = "error"
          /\ Occurs(resp.transcribe.exc.text, result.message)
    /\ (pc \in {"loop", "done"} /\ resp.analyze.kind = "raise") => Returned
    /\ (pc \in {"loop", "done"} /\ resp.publish.kind = "raise") =>
          /\ Returned
          /\ result.status = "error"
          /\ Occurs(resp.publish.exc.text, result.message)

\* analysis and publishing both raised and an error outcome was returned
C3_Witness ==
    /\ Returned
    /\ resp.analyze.kind = "raise"
    /\ resp.publish.kind = "raise"
    /\ result.status = "error"


\* C4: in a later run over a folder, transcribe is not invoked for a file that
\* an earlier run already took past the transcription stage.
C4_NoRepeatedTranscription ==
    entry = "folder" =>
        \A i \in DOMAIN calls :
            calls[i].op = "transcribe" => calls[i].file \notin advanced

\* C5: with the transcription capability absent the outcome is an error whose
\* message begins 'Transcription service not available', and neither
\* analyze_transcript nor create_notion_page is invoked for the item.
C5_TranscriptionAbsent ==
    ~transcription_service =>
        /\ pc \notin {"analyze", "publish"}
        /\ CallCount("analyze_transcript") = 0
        /\ CallCount("create_notion_page") = 0
        /\ Returned =>
              /\ result.status = "error"
              /\ result.message # <<>>
              /\ Head(result.message) = "Transcription service not available"

\* the item was refused although analysis and publishing are both bound
C5_Witness ==
    /\ Returned
    /\ ~transcription_service /\ summarizer_service /\ notion_handler
    /\ result.status = "error"

\* transcribe raised, or returned an empty or whitespace-only text
TranscriptionFailed ==
    \/ resp.transcribe.kind = "raise"
    \/ resp.transcribe.kind = "return" /\ IsBlank(resp.transcribe.text)

\* transcribe returned a text that is not blank
PastTranscription ==
    resp.transcribe.kind = "return" /\ ~IsBlank(resp.transcribe.text)

\* C6: when transcribe raises or returns an empty or whitespace-only text, the
\* outcome is an error with a transcription-stage message, analysis and
\* publishing are not invoked, and transcribe was invoked exactly once.
C6_TranscriptionFailureStopsItem ==
    TranscriptionFailed =>
        /\ Returned
        /\ result.status = "error"
        /\ Head(result.message) \in {"Transcription resulted in empty text.",
                                     "Transcription failed: "}
        /\ CallCount("transcribe") = 1
        /\ CallCount("analyze_transcript") = 0
        /\ CallCount("create_notion_page") = 0

\* a whitespace-only transcript ended the item
C6_Witness ==
    /\ Returned
    /\ resp.transcribe.kind = "return"
    /\ resp.transcribe.text = <<" ", "\n">>
    /\ summarizer_service /\ notion_handler
    /\ result.status = "error"

PublishCalls == {i \in DOMAIN calls : calls[i].op = "create_notion_page"}

\* the string create_notion_page returned is a page URL
ReturnedUrl ==
    /\ resp.publish.kind = "return"
    /\ Len(resp.publish.text) > Len(Https)
    /\ \A j \in DOMAIN Https : resp.publish.text[j] = Https[j]

\* create_notion_page was invoked once, with the empty placeholder analysis
\* and the whole transcript, and a returned URL made the outcome a success
PublishedTranscriptOnly ==
    /\ CallCount("create_notion_page") = 1
    /\ \A i \in PublishCalls :
          /\ calls[i].summary = <<>>
          /\ calls[i].action_items = <<>>
          /\ calls[i].transcript = resp.transcribe.text
    /\ ReturnedUrl =>
          result.status = "success" /\ result.url = resp.publish.text

\* C7 as stated: after a non-empty transcript, with the analysis capability
\* absent, create_notion_page is invoked once with summary '' and
\* action_items [] and the full transcript, and a returned URL means success.
C7_AsStated ==
    (Returned /\ PastTranscription /\ ~summarizer_service)
        => PublishedTranscriptOnly

\* C7 amended: the same, for an item whose publishing capability is bound;
\* analyze_transcript is not invoked.
C7_TranscriptOnlyIsPublished ==
    (PastTranscription /\ ~summarizer_service) =>
        /\ CallCount("analyze_transcript") = 0
        /\ (Returned /\ notion_handler) => PublishedTranscriptOnly

\* a transcript without analysis was published successfully
C7_Witness ==
    /\ Returned /\ PastTranscription
    /\ ~summarizer_service /\ notion_handler
    /\ CallCount("create_notion_page") = 1
    /\ result.status = "success"

\* the outcome's status is the one the publishing stage alone decides
StatusByPublishing ==
    result.status =
        IF /\ notion_handler
           /\ resp.publish.kind = "return"
           /\ Occurs(Https, resp.publish.text)
        THEN "success" ELSE "error"

\* analyze_transcript raised and left the placeholder analysis
PlaceholderAnalysis ==
    /\ Occurs(resp.analyze.exc.text, summary_data.summary)
    /\ summary_data.action_items = <<>>

\* create_notion_page was invoked once with the placeholder analysis and the
\* whole transcript
PublishedWithPlaceholder ==
    /\ CallCount("create_notion_page") = 1
    /\ \A i \in PublishCalls :
          /\ calls[i].summary = summary_data.summary
          /\ calls[i].action_items = <<>>
          /\ calls[i].transcript = resp.transcribe.text

\* C8 as stated: when analyze_transcript raises, the placeholder analysis
\* embeds the error text, create_notion_page is still invoked exactly once
\* with the full transcript, and publishing alone decides the status.
C8_AsStated ==
    (Returned /\ resp.analyze.kind = "raise") =>
        /\ PlaceholderAnalysis
        /\ PublishedWithPlaceholder
        /\ StatusByPublishing

\* C8 amended: when analyze_transcript raises the item is not aborted and the
\* placeholder analysis embeds the error text; with the publishing capability
\* bound create_notion_page is invoked exactly once with the full transcript,
\* with it absent it is not invoked; publishing alone decides the status.
C8_AnalysisFailureStillPublishes ==
    resp.analyze.kind = "raise" =>
        /\ pc # "crashed"
        /\ pc = "publish" \/ Returned
        /\ PlaceholderAnalysis
        /\ Returned =>
              /\ IF notion_handler THEN PublishedWithPlaceholder
                 ELSE CallCount("create_notion_page") = 0
              /\ StatusByPublishing

\* the analysis raised and the item was still published successfully
C8_Witness ==
    /\ Returned
    /\ resp.analyze.kind = "raise"
    /\ CallCount("create_notion_page") = 1
    /\ result.status = "success"

\* C9: after a non-empty transcript the outcome is a success exactly when the
\* publishing capability is bound and the returned string contains 'https://'
\* (the url is then that string); a returned string without it gives an error
\* whose message carries the string; an absent capability gives an error and
\* create_notion_page is not invoked.
C9_SuccessIffHttps ==
    (Returned /\ PastTranscription) =>
        /\ result.status = "success" <=>
              /\ notion_handler
              /\ resp.publish.kind = "return"
              /\ Occurs(Https, resp.publish.text)
        /\ result.status = "success" => result.url = resp.publish.text
        /\ result.status # "success" => result.status = "error"
        /\ ( /\ notion_handler
             /\ resp.publish.kind = "return"
             /\ ~Occurs(Https, resp.publish.text) ) =>
               Occurs(resp.publish.text, result.message)
        /\ ~notion_handler => CallCount("create_notion_page") = 0

\* a returned string that holds 'https://' after other text was a success
C9_Witness ==
    /\ Returned /\ PastTranscription /\ notion_handler
    /\ resp.publish.kind = "return"
    /\ Occurs(Https, resp.publish.text)
    /\ ~ReturnedUrl
    /\ result.status = "success"
    /\ result.url = resp.publish.text

\* YYYY-MM-DD of a datetime
DatePortion(dt) ==
    ZeroPad(dt.year, 4) \o <<"-">> \o ZeroPad(dt.month, 2) \o <<"-">>
        \o ZeroPad(dt.day, 2)

\* C10: in process_folder, for a file with an entry in the date mapping the
\* date passed to create_notion_page is the mapping's value and the file's
\* metadata is not read; for a file without an entry the date passed is the
\* YYYY-MM-DD part of the file's modification timestamp.
C10_DatePrecedence ==
    (entry = "folder" /\ idx >= 1) =>
        LET f == audio_files[idx] IN
        /\ f \in DOMAIN date_mapping =>
              /\ CallCount("get_file_metadata") = 0
              /\ resp.meta.kind = "unasked"
        /\ \A i \in PublishCalls :
              calls[i].date_iso =
                  IF f \in DOMAIN date_mapping THEN date_mapping[f]
                  ELSE DatePortion(resp.meta.st_mtime)

\* the first file was published under its mapped date, the second is being
\* published under the date of its modification time
C10_Witness ==
    /\ entry = "folder" /\ idx = 2
    /\ 1 \in DOMAIN date_mapping /\ 2 \notin DOMAIN date_mapping
    /\ results # <<>> /\ results[1].status = "success"
    /\ \E i \in PublishCalls :
          calls[i].date_iso = <<"2", "0", "2", "5", "-", "0", "6", "-", "0", "1">>

\* the record is one of the three date-resolution errors of process_folder
DateError(rec) ==
    /\ rec.status = "error"
    /\ rec.message # <<>>
    /\ Head(rec.message) \in {"File metadata not found.",
                              "Error getting metadata date: ",
                              "Could not determine date for Notion page."}

\* the loop has appended the record of the current file
ItemRecorded ==
    entry = "folder" /\ idx >= 1 /\ pc \in {"loop", "done"} /\ Len(results) = idx

\* the file system was asked for the current file and its times were readable
MtimeReadable ==
    /\ CallCount("get_file_metadata") = 1
    /\ resp.meta.is_file /\ resp.meta.stat_ok

\* C11: process_folder records a date-resolution error for an item, and makes
\* no transcription, analysis or publishing call for it, only when the item
\* has no date-mapping entry and its modification date cannot be read; an item
\* whose modification date is readable goes on to process_single_audio_file.
C11_DateErrorOnlyWhenNothingDerivable ==
    ItemRecorded =>
        /\ DateError(results[idx]) =>
              /\ audio_files[idx] \notin DOMAIN date_mapping
              /\ ~MtimeReadable
              /\ CallCount("transcribe") = 0
              /\ CallCount("analyze_transcript") = 0
              /\ CallCount("create_notion_page") = 0
        /\ MtimeReadable => (~DateError(results[idx]) /\ Returned)

\* an outcome record with a final status and a url exactly on success
WellFormed(rec) ==
    /\ rec.status \in {"success", "error"}
    /\ rec.url # <<>> <=> rec.status = "success"

\* C12: every outcome record returned by process_single_audio_file or held by
\* process_folder's results has status 'success' or 'error', never 'pending',
\* and a non-empty url exactly when its status is 'success'.
C12_OutcomesWellFormed ==
    /\ Returned => WellFormed(result)
    /\ \A i \in DOMAIN results : WellFormed(results[i])

\* a folder run recorded a success with its url and an error without one
C12_Witness ==
    /\ entry = "folder" /\ Len(results) = 2
    /\ results[1].status = "success" /\ results[1].url = PageUrl
    /\ results[2].status = "error" /\ results[2].url = <<>>

\* C13: during process_folder every step leaves results as it was or adds one
\* record at its end; the records already there keep all their fields and
\* their places, and the i-th record is the one of the i-th scanned file.
C13_ResultsAppendOnly ==
    [][ entry = "folder" =>
          /\ Len(results') \in {Len(results), Len(results) + 1}
          /\ \A i \in DOMAIN results : results'[i] = results[i]
          /\ Len(results') <= Len(audio_files')
          /\ \A i \in DOMAIN results' :
                results'[i].file = PathStr(audio_files'[i]) ]_vars

\* the loop ended with the records of two files, the second after the first
C13_Witness ==
    /\ entry = "folder" /\ pc = "done" /\ idx = 2 /\ Len(results) = 2
    /\ results[1].file = PathStr(audio_files[1])
    /\ results[2].file = PathStr(audio_files[2])
    /\ results[1].file # results[2].file

\* the capability is bound in the orchestrator
Bound(x) ==
    CASE x = "transcription" -> transcription_service
      [] x = "analysis" -> summarizer_service
      [] OTHER -> notion_handler

\* the constructor of capability x was called and raised
ConstructionOfFailed(x) ==
    /\ initialize_services(settings, constructors).called[x]
    /\ constructors[x].kind = "raise"

\* C14: when the constructor of one capability raises, no exception leaves
\* the Orchestrator constructor, that capability is left unbound, and each
\* of the other two is bound or unbound exactly as it is when the failing
\* constructor succeeds under the same settings.
C14_ConstructionFailureIsolated ==
    \A x \in Capabilities :
        ConstructionOfFailed(x) =>
            /\ pc # "crashed"
            /\ propagated = NoExc
            /\ ~Bound(x)
            /\ LET succeeded ==
                       initialize_services(
                           settings, [constructors EXCEPT ![x] = Constructed])
               IN \A y \in Capabilities \ {x} : Bound(y) = succeeded.bound[y]

\* SummarizerService could not be constructed, the other two capabilities
\* are bound and an item was published
C14_Witness ==
    /\ ConstructionOfFailed("analysis")
    /\ transcription_service /\ ~summarizer_service /\ notion_handler
    /\ Returned /\ result.status = "success"

\* C15: a process_folder run of an orchestrator with no capability bound ends
\* at once without calling get_audio_files and without any call for any
\* file, and what it returns is counted by main as a failure: an error
\* record, not an empty list and not a success.
C15_NoCapabilityFailsExplicitly ==
    (entry = "folder" /\ ~SomeServiceBound) =>
        /\ pc = "done"
        /\ propagated = NoExc
        /\ ~scan.called
        /\ audio_files = <<>> /\ idx = 0
        /\ calls = <<>> /\ resp = NoResponses
        /\ results # <<>>
        /\ \A i \in DOMAIN results : results[i].status = "error"
        /\ failed_processing(results) >= 1
        /\ successful_uploads(results) = 0

\* no capability could be bound and a folder holding two audio files was
\* given to process_folder
C15_Witness ==
    /\ entry = "folder" /\ ~SomeServiceBound
    /\ Len(folder) = 2
    /\ \E x \in Capabilities : ConstructionOfFailed(x)
    /\ failed_processing(results) = 1

\* the two letters are the same up to their case
SameLetter(a, b) ==
    a = b \/ \E i \in DOMAIN Capitals : {a, b} = {Capitals[i], Smalls[i]}

\* the name ends with the extension ext in some spelling of upper and lower
\* case, its first '.' being neither the first character of the name nor
\* followed by another '.'
HasExtension(name, ext) ==
    LET k == Len(name) - Len(ext) IN
    /\ k >= 1
    /\ \A j \in 1..Len(ext) : SameLetter(name[k + j], ext[j])
    /\ \A j \in (k + 2)..Len(name) : name[j] # "."

Supported(name) ==
    \E ext \in { <<".", "m", "4", "a">>, <<".", "w", "a", "v">>,
                  <<".", "m", "p", "3">>, <<".", "a", "a", "c">>,
                  <<".", "f", "l", "a", "c">>, <<".", "o", "g", "g">>,
                  <<".", "o", "p", "u", "s">> } : HasExtension(name, ext)

\* the regular files directly in the scanned directory that have a supported
\* extension
AudioFilesOf(dir) ==
    { dir.entries[i].path :
        i \in { j \in DOMAIN dir.entries :
                   dir.entries[j].is_file /\ Supported(dir.entries[j].name) } }

\* C16: get_audio_files returns the regular files found directly in the
\* folder whose extension is, whatever its case, one of the supported ones,
\* each once and nothing else (no subdirectory, no file of a subdirectory);
\* for a path that is not a directory it returns the empty list.
C16_ScanReturnsSupportedFiles ==
    scan.called =>
        IF ~scan.directory.is_dir THEN scan.files = <<>>
        ELSE /\ { scan.files[i] : i \in DOMAIN scan.files }
                    = AudioFilesOf(scan.directory)
             /\ \A i, j \in DOMAIN scan.files :
                    scan.files[i] = scan.files[j] => i = j

\* a folder holding a.mp3, b.txt and a subdirectory named c.WAV with a file
\* x.wav in it was scanned, and a folder holding the file c.WAV was too
C16_Witness ==
    /\ scan.called /\ scan.directory.is_dir
    /\ \/ /\ scan.directory.entries =
                 << FileEntry(1, EntryNames[1]), FileEntry(2, EntryNames[2]),
                    DirEntry(3, EntryNames[3], <<Nested>>) >>
          /\ scan.files = <<1>>
       \/ /\ scan.directory.entries =
                 << FileEntry(3, EntryNames[3]), FileEntry(1, EntryNames[1]) >>
          /\ scan.files = <<3, 1>>

\* C17: for an empty or whitespace-only transcript and any file name f,
\* analyze_transcript returns {summary: '', action_items: [],
\* original_filename: f}, sends no prompt to the model and raises nothing.
C17_EmptyTranscriptShortCircuit ==
    (analyzed.called /\ IsBlank(analyzed.transcript)) =>
        /\ analyzed.outcome.kind = "return"
        /\ analyzed.outcome.exc = NoExc
        /\ analyzed.outcome.prompts = <<>>
        /\ analyzed.outcome.data =
               [summary |-> <<>>, action_items |-> <<>>,
                original_filename |-> analyzed.original_filename]

\* analyze_transcript was called with a transcript of blanks only
C17_Witness ==
    /\ analyzed.called
    /\ analyzed.transcript = <<" ", "\t", "\n">>
    /\ analyzed.original_filename = <<"f", ".", "w", "a", "v">>
    /\ analyzed.outcome.data.original_filename = <<"f", ".", "w", "a", "v">>
    /\ analyzed.outcome.prompts = <<>>

\* the line without the blanks before its first and after its last character
\* that is not blank
Trimmed(l) ==
    IF IsBlank(l) THEN <<>>
    ELSE LET solid == { i \in DOMAIN l : l[i] \notin {" ", "\n", "\t"} }
             a == CHOOSE i \in solid : \A j \in solid : i <= j
             b == CHOOSE i \in solid : \A j \in solid : j <= i
         IN SubSeq(l, a, b)

\* the line begins, after trimming, with the bullet marker
HasBullet(l) == Trimmed(l) # <<>> /\ Trimmed(l)[1] = "-"

\* the trimmed line without its bullet prefix, the '-' and space characters
\* it begins with, and without the blanks around what is left
WithoutBullet(l) ==
    LET t == Trimmed(l)
        text == { i \in DOMAIN t : t[i] \notin {"-", " "} }
    IN IF text = {} THEN <<>>
       ELSE Trimmed(SubSeq(t, CHOOSE i \in text : \A j \in text : i <= j,
                           Len(t)))

\* the entries the bulleted lines give, in the order of the lines
RECURSIVE EntriesOf(_)
EntriesOf(lines) ==
    IF lines = <<>> THEN <<>>
    ELSE (IF HasBullet(Head(lines)) /\ WithoutBullet(Head(lines)) # <<>>
          THEN <<WithoutBullet(Head(lines))>> ELSE <<>>)
         \o EntriesOf(Tail(lines))

\* analyze_transcript returned and built its action items from the text the
\* model gave for the action-items prompt
ParsedReply ==
    /\ analyzed.called
    /\ analyzed.outcome.kind = "return"
    /\ analyzed.outcome.used.action_items.kind = "response"
    /\ analyzed.outcome.used.action_items.text # <<>>

ThreeBulleted ==
    <<"-", " ", "Follow up with Bob", "\n", "-", " ", "no bullet here", "\n",
      "-", " ", "Send report">>
SecondUnbulleted ==
    <<"-", " ", "Follow up with Bob", "\n", "no bullet here", "\n",
      "-", " ", "Send report">>

\* the model answered the action-items prompt with text and
\* analyze_transcript returned
Replied(text) ==
    /\ analyzed.called
    /\ analyzed.outcome.kind = "return"
    /\ analyzed.outcome.used.action_items.kind = "response"
    /\ analyzed.outcome.used.action_items.text = text

\* C19 as stated: the response '- Follow up with Bob', '- no bullet here',
\* '- Send report' is parsed into ['Follow up with Bob', 'Send report'].
C19_AsStated ==
    Replied(ThreeBulleted) =>
        analyzed.outcome.data.action_items =
            << <<"Follow up with Bob">>, <<"Send report">> >>

\* C19 amended: that response, each of whose lines has a bullet, is parsed
\* into ['Follow up with Bob', 'no bullet here', 'Send report']; the response
\* whose second line is 'no bullet here' without a bullet is parsed into
\* ['Follow up with Bob', 'Send report'].
C19_ExampleParsed ==
    /\ Replied(ThreeBulleted) =>
          analyzed.outcome.data.action_items =
              << <<"Follow up with Bob">>, <<"no bullet here">>,
                 <<"Send report">> >>
    /\ Replied(SecondUnbulleted) =>
          analyzed.outcome.data.action_items =
              << <<"Follow up with Bob">>, <<"Send report">> >>

\* the response of three bulleted lines was parsed into three action items
C19_Witness ==
    /\ Replied(ThreeBulleted)
    /\ Len(analyzed.outcome.data.action_items) = 3

\* the two texts are the same up to the case of their letters
SameIgnoringCase(t, u) ==
    Len(t) = Len(u) /\ \A i \in DOMAIN t : SameLetter(t[i], u[i])

\* the text says, in some letter case, 'No action items identified.' or
\* 'No action items found.'
SaysNoItems(t) ==
    SameIgnoringCase(t, NoItemsIdentified) \/ SameIgnoringCase(t, NoItemsFound)

\* the model answered the action-items prompt with an explicit no-items
\* response, alone or as a bulleted line
NoItemsReplied ==
    /\ analyzed.called
    /\ analyzed.outcome.used.action_items.kind = "response"
    /\ \/ SaysNoItems(Trimmed(analyzed.outcome.used.action_items.text))
       \/ /\ HasBullet(analyzed.outcome.used.action_items.text)
          /\ SaysNoItems(WithoutBullet(analyzed.outcome.used.action_items.text))

\* C20: an explicit no-items response of the model, in any letter case and
\* also as a bulleted line after the '-' the prompt ends with, gives an empty
\* action_items list and no error.
C20_NoItemsReplyGivesEmptyList ==
    NoItemsReplied =>
        /\ analyzed.outcome.kind = "return"
        /\ analyzed.outcome.data.action_items = <<>>

\* C21: for a non-empty transcript, when the model call of one facet of
\* SummarizerService.analyze_transcript raises, the call still returns a
\* result with the three keys, the failed facet holds its empty placeholder
\* and the model was asked for the other facet too.
C21_FacetFailureIsolated ==
    \A facet \in {"summary", "action_items"} :
        (analyzed.called /\ ~IsBlank(analyzed.transcript)
                         /\ analyzed.outcome.used[facet].kind = "raise") =>
            /\ analyzed.outcome.kind = "return"
            /\ DOMAIN analyzed.outcome.data =
                   {"summary", "action_items", "original_filename"}
            /\ analyzed.outcome.data[facet] = <<>>
            /\ \A other \in {"summary", "action_items"} :
                   analyzed.outcome.used[other].kind # "unasked"

\* notion.pages.create failed: the service rejected the request or the
\* connection did not work
RemoteFailed == created.called /\ created.remote.kind \in {"api_error", "error"}

\* C22: NotionHandler.create_notion_page never raises on a remote or network
\* failure of pages.create: it returns a string, the page URL (or the
\* sentinel for a response without one) when the page was created and a
\* failure description carrying the error's text otherwise.
C22_CreatePageNeverRaises ==
    created.called =>
        /\ created.outcome.kind = "return"
        /\ created.outcome.exc = NoExc
        /\ IF RemoteFailed
           THEN /\ Occurs(created.remote.body, created.outcome.text)
                /\ Len(created.outcome.text) > Len(created.remote.body)
           ELSE created.outcome.text \in
                    {created.remote.url, <<"URL not found in response">>}

C22_Witness ==
    /\ RemoteFailed
    /\ created.remote.kind = "error"
    /\ created.outcome.kind = "return"
    /\ Occurs(<<"All connection attempts failed">>, created.outcome.text)

\* one of the two arguments of the constructor is empty
CredentialMissing ==
    handler.called /\ (handler.api_key = <<>> \/ handler.database_id = <<>>)

\* the construction failed with ValueError before any remote call
FailedFast ==
    /\ handler.outcome.kind = "raise"
    /\ handler.outcome.exc.type = "ValueError"
    /\ handler.outcome.remote_calls = <<>>

\* the orchestrator was built from settings without a Notion key or without
\* a database id
NotionSettingMissing ==
    \/ ~("notion_api_key" \in DOMAIN settings /\ settings.notion_api_key # <<>>)
    \/ ~("notion_database_id" \in DOMAIN settings
            /\ settings.notion_database_id # <<>>)

C24_NotARegularFileIsNotFound ==
    (transcribed.called /\ transcribed.env.path # "file") =>
        /\ transcribed.outcome.kind = "raise"
        /\ transcribed.outcome.exc.type = "FileNotFoundError"
        /\ transcribed.outcome.ran = <<>>

\* the dict returned holds, for every key of the persisted object or of
\* the defaults, the persisted value when there is one and the default
\* value otherwise
MergedOverDefaults(returned, persisted) ==
    /\ DOMAIN returned = DOMAIN persisted \cup DOMAIN get_default_settings
    /\ \A k \in DOMAIN returned :
          returned[k] = IF k \in DOMAIN persisted THEN persisted[k]
                        ELSE get_default_settings[k]

\* C25: load_settings never raises; it returns the persisted values merged
\* over the defaults when the settings file holds an object (keys unknown
\* to the defaults kept), and exactly the defaults when the file is missing,
\* unreadable or corrupt.
C25_LoadNeverAbortsStartup ==
    loaded.called =>
        /\ loaded.outcome.kind = "return"
        /\ IF loaded.env.file = "object"
           THEN MergedOverDefaults(loaded.outcome.settings,
                                   loaded.env.document)
           ELSE loaded.outcome.settings = get_default_settings

\* the positions in stages of the invocations of op for the current meeting
Invocations(op) == {i \in DOMAIN stages : stages[i].op = op}

\* an invocation main_loop made for the current meeting failed
StageFailed == \E i \in DOMAIN stages : ~stages[i].ok

\* C26: in main_loop, when a stage for a meeting fails (capture start or
\* stop, no recording found, transcription, analysis, saving the analysis,
\* publishing), main_loop is not terminated by it, and no stage is invoked
\* twice for the meeting within the cycle.
C26_StageFailureAdvances ==
    StageFailed =>
        /\ loop_pc # "crashed"
        /\ \A i, j \in DOMAIN stages :
              (i # j /\ stages[i].op = stages[j].op) => stages[i].op = "sleep"

\* C27: main_loop starts a capture for a meeting only when no earlier
\* polling cycle started and stopped a capture for that meeting.
C27_MeetingCapturedOnce ==
    Invocations("start_obs_recording") # {} =>
        ~\E c \in captured :
            c.id = meetings[position].id /\ c.poll < polls

\* process_recording transcribed the recording of the current meeting and
\* the text it wrote is empty or whitespace only
BlankTranscription ==
    \E i \in Invocations("process_recording") :
        stages[i].ran /\ stages[i].ok /\ IsBlank(stages[i].text)

\* C28: in main_loop, when the transcription of a meeting's recording gave
\* an empty or whitespace-only text, neither analyze nor
\* create_meeting_page is invoked for the meeting.
C28_BlankTranscriptIsFailure ==
    BlankTranscription =>
        /\ Invocations("analyze") = {}
        /\ Invocations("create_meeting_page") = {}

CapabilityRank(op) ==
    CASE op = "transcribe" -> 1
      [] op = "analyze_transcript" -> 2
      [] op = "create_notion_page" -> 3
      [] OTHER -> 0

CapabilityCalls == {i \in DOMAIN calls : CapabilityRank(calls[i].op) > 0}

\* the calls made so far for the current item respect the order and the guards
CapabilityCallsOrdered ==
    /\ \A op \in {"transcribe", "analyze_transcript", "create_notion_page"} :
          CallCount(op) <= 1
    /\ \A i, j \in CapabilityCalls :
          i < j => CapabilityRank(calls[i].op) < CapabilityRank(calls[j].op)
    /\ CallCount("analyze_transcript") = 1 =>
          /\ CallCount("transcribe") = 1
          /\ resp.transcribe.kind = "return"
          /\ ~IsBlank(resp.transcribe.text)
    /\ CallCount("create_notion_page") = 1 =>
          /\ CallCount("transcribe") = 1
          /\ resp.transcribe.kind = "return"
          /\ ~IsBlank(resp.transcribe.text)

\* C29: for each item of process_single_audio_file the capability calls occur
\* only in the order transcribe, analyze_transcript, create_notion_page, each
\* at most once; analyze_transcript and create_notion_page are invoked only
\* after transcribe returned a non-empty text; once the outcome of the item is
\* returned no further capability call is made for it.
C29_CapabilityCallOrder ==
    [][ /\ CapabilityCallsOrdered'
        /\ (Returned /\ idx' = idx /\ run' = run /\ audio_files' = audio_files)
              => calls' = calls ]_vars

C29_Witness ==
    /\ Returned
    /\ CallCount("transcribe") = 1
    /\ CallCount("analyze_transcript") = 1
    /\ CallCount("create_notion_page") = 1
    /\ CapabilityCallsOrdered

\* main_loop is inside the for body, at the meeting meetings[position]
InForBody ==
    loop_pc \in {"wait", "start", "recording", "stop", "locate",
                 "transcribe", "analyze", "save", "publish", "next"}

\* the meetings of the current poll whose capture has been stopped
CapturedThisPoll == {c.id : c \in {x \in captured : x.poll = polls}}

\* C31: main_loop takes the meetings of a poll in the order the calendar
\* returned them; start_obs_recording() is never invoked before the start time
\* of its meeting: a start time ahead is slept towards in one sleep of the
\* whole difference, a start time not ahead is followed by the start at once.
C31_MeetingsInOrderStartNotEarly ==
    /\ InForBody =>
          /\ meetings = calendar
          /\ position \in 1..Len(meetings)
          /\ CapturedThisPoll =
                { meetings[k].id : k \in
                    { n \in 1..position :
                        n < position
                        \/ loop_pc \in {"locate", "transcribe", "analyze",
                                        "save", "publish", "next"} } }
    /\ loop_pc = "recording" =>
          /\ now >= meetings[position].start
          /\ \/ /\ Len(stages) = 1
                /\ stages[1].op = "start_obs_recording"
             \/ /\ Len(stages) = 2
                /\ stages[1].op = "sleep"
                /\ stages[1].seconds > 0
                /\ now = meetings[position].start
                /\ stages[2].op = "start_obs_recording"
    /\ \A j \in Invocations("start_obs_recording") :
          /\ j <= 2
          /\ now >= meetings[position].start

\* the first of two meetings lay 1000 s ahead and was slept towards
C31_Witness ==
    /\ loop_pc = "recording"
    /\ Len(meetings) = 2
    /\ Len(stages) = 2
    /\ stages[1].op = "sleep"
    /\ stages[1].seconds = 1000
    /\ now = 1000

\* the poll of this cycle returned no meetings and the cycle is at its sleep
EmptyCycle == loop_pc = "backoff" /\ meetings = <<>>

\* C32: between two consecutive calendar polls main_loop sleeps the backoff
\* of 300 s exactly once, after an empty poll (where no capture is started in
\* the cycle) as well as after the last meeting of the poll was handled; it
\* never polls twice without the backoff in between, and unless an exception
\* leaves main_loop it always comes back to polling.
C32_BackoffBetweenPolls ==
    /\ [][ /\ polls' # polls => (loop_pc = "poll" /\ polls' = polls + 1)
           /\ loop_pc = "poll" =>
                 /\ polls' = polls + 1
                 /\ now' = now
                 /\ loop_pc' \in {"backoff", "wait", "crashed"}
                 /\ loop_pc' = "backoff" <=> (loop_exc' = NoExc /\ meetings' = <<>>)
           /\ (loop_pc' = "poll" /\ loop_pc # "poll") =>
                 \/ loop_pc = "off" /\ polls = 0
                 \/ loop_pc = "backoff" /\ now' = now + 300
           /\ loop_pc = "backoff" =>
                 /\ loop_pc' = "poll"
                 /\ now' = now + 300
                 /\ polls' = polls
           /\ (loop_pc' = "backoff" /\ loop_pc # "poll") =>
                 /\ loop_pc = "next"
                 /\ position = Len(meetings)
           /\ EmptyCycle' =>
                 /\ stages' = <<>>
                 /\ open_captures' = 0
                 /\ \A c \in captured' : c.poll # polls' ]_vars
    /\ (loop_pc # "off") ~> (loop_pc \in {"poll", "crashed"})

\* the second poll found two meetings, both were handled and the backoff slept
C32_Witness ==
    /\ loop_pc = "poll"
    /\ polls = 2
    /\ Len(meetings) = 2
    /\ position = 2
    /\ now = 16000

\* why a call of WhisperTranscriber.transcribe under e raised: the input
\* file is missing, the conversion to WAV failed, or the model run failed
FailureCause(e, outcome) ==
    IF e.path = "missing" THEN "not_found"
    ELSE IF \E i \in DOMAIN outcome.ran : outcome.ran[i] = "model.transcribe"
    THEN "model"
    ELSE "conversion"

\* C33: a conversion failure of WhisperTranscriber.transcribe (ffmpeg missing,
\* or ffmpeg exiting non-zero) is raised as RuntimeError, and the type of the
\* error raised tells a missing input file, a conversion failure and a
\* model failure apart: no two calls that failed for different causes raise
\* the same type.
C33_FailureCausesDistinct ==
    (/\ transcribed.called
     /\ transcribed.service = "WhisperTranscriber"
     /\ transcribed.outcome.kind = "raise") =>
        LET cause == FailureCause(transcribed.env, transcribed.outcome) IN
        /\ cause = "conversion" =>
              transcribed.outcome.exc.type = "RuntimeError"
        /\ cause = "not_found" =>
              transcribed.outcome.exc.type = "FileNotFoundError"
        /\ \A e \in TranscribeEnvs :
              LET other == WhisperTranscriber_transcribe(e) IN
              (/\ other.kind = "raise"
               /\ other.exc.type = transcribed.outcome.exc.type) =>
                    FailureCause(e, other) = cause

\* C34: after WhisperTranscriber.transcribe has returned or raised, whatever
\* the exit path (success, ffmpeg missing, copy failure, ffmpeg failure, model
\* failure), no converted WAV file created for the call remains in the
\* transcriber's temp directory.
C34_NoTempFileLeft ==
    (transcribed.called /\ transcribed.service = "WhisperTranscriber") =>
        ~transcribed.outcome.temp_left

\* the texts of a list joined in order
RECURSIVE Concatenation(_)
Concatenation(texts) ==
    IF texts = <<>> THEN <<>>
    ELSE Head(texts) \o Concatenation(Tail(texts))

\* the last block of the page sent: the collapsible Transcript container
TranscriptContainer ==
    created.outcome.sent.children[Len(created.outcome.sent.children)]

\* the texts of the children of the container, in order
ContainerTexts ==
    [i \in DOMAIN TranscriptContainer.children |->
         TranscriptContainer.children[i].content]

\* the container is a toggle whose children are paragraphs of 1 to 2000
\* characters that concatenate to text
HoldsInChunks(text) ==
    /\ TranscriptContainer.type = "toggle"
    /\ \A i \in DOMAIN TranscriptContainer.children :
          /\ TranscriptContainer.children[i].type = "paragraph"
          /\ Len(ContainerTexts[i]) \in 1..2000
    /\ Concatenation(ContainerTexts) = text

\* C35 as stated: for every transcript text the Transcript container holds
\* one paragraph per chunk, each chunk of 1 to 2000 characters, and the chunks
\* concatenated in order give the transcript.
C35_AsStated ==
    created.called => HoldsInChunks(created.args.transcript)

\* C35 amended: for every non-empty transcript the container holds one
\* paragraph per chunk, each of 1 to 2000 characters, concatenating in order
\* to the transcript; for an empty transcript it holds the single paragraph
\* 'Transcript not available.'.
C35_TranscriptChunked ==
    created.called =>
        IF created.args.transcript # <<>>
        THEN HoldsInChunks(created.args.transcript)
        ELSE /\ TranscriptContainer.type = "toggle"
             /\ ContainerTexts = << <<"Transcript not available.">> >>

\* a transcript of 2001 characters was sent as a chunk of 2000 and one of 1
C35_Witness ==
    /\ created.called
    /\ Len(created.args.transcript) = 2001
    /\ Len(ContainerTexts) = 2
    /\ Len(ContainerTexts[1]) = 2000
    /\ ContainerTexts[2] = <<"b">>

\* the text blocks of the page sent: the top-level blocks and the children
\* of the toggle
SentTextBlocks ==
    LET top == created.outcome.sent.children IN
    { top[i] : i \in DOMAIN top }
    \cup UNION { { top[i].children[j] : j \in DOMAIN top[i].children } :
                 i \in DOMAIN top }

\* C36: whatever create_notion_page is given (an empty summary, an empty list
\* of action items, action items that are empty strings, an empty
\* transcript), no text block of the page content sent to the remote service
\* has empty text content.
C36_NoEmptyTextBlock ==
    created.called => \A b \in SentTextBlocks : b.content # <<>>

\* the remote service created a page for the current item
PageCreated == resp.publish.kind = "return" /\ resp.publish.page

\* C37: an outcome with status 'success' implies that the page-creation call
\* for the item completed without error and a page was created; no failure
\* string returned by create_notion_page is recorded as a success.
C37_SuccessMeansPageCreated ==
    (Returned /\ result.status = "success") => PageCreated

\* C38: an outcome with status 'error' implies that no page was created
\* remotely for the item in this run: whenever the remote page-creation call
\* succeeded the outcome of the item is 'success'.
C38_ErrorMeansNoPage ==
    (Returned /\ result.status = "error") => ~PageCreated

\* the recording main_loop picked is the one the capture of the current
\* meeting wrote in the current poll
OwnRecording ==
    /\ video_path.of = meetings[position].id
    /\ video_path.poll = polls

\* C39: the recording main_loop transcribes, analyses and publishes for a
\* meeting is one written by that meeting's own capture; when the capture
\* wrote no new file, no older file of the recordings directory is processed
\* under the meeting's title and date.
C39_OnlyOwnRecordingProcessed ==
    /\ loop_pc \in {"transcribe", "analyze", "save", "publish"} =>
          OwnRecording
    /\ (\E op \in {"process_recording", "analyze", "create_meeting_page"} :
           Invocations(op) # {}) => OwnRecording

\* the video is one of the files of recordings/
InRecordings(video, files) == \E i \in DOMAIN files : files[i] = video

\* C40: process_recording creates the transcript file <stem>_notes.txt only
\* after both the conversion and the transcription succeeded; when either
\* fails no transcript file is created and the video stays in recordings/, so
\* that a later run attempts it again; when the transcript file exists
\* already the call converts, transcribes, writes and moves nothing.
C40_TranscriptMarksCompletion ==
    [][ loop_pc = "transcribe" =>
          LET call == stages'[Len(stages')] IN
          /\ call.op = "process_recording"
          /\ IF video_path \in transcripts
             THEN /\ ~call.ran
                  /\ transcripts' = transcripts
                  /\ recordings' = recordings
             ELSE /\ call.ran
                  /\ call.outcome \in {"ffmpeg_failed", "model_failed"} =>
                        /\ transcripts' = transcripts
                        /\ recordings' = recordings
                        /\ InRecordings(video_path, recordings')
                  /\ video_path \in transcripts' =>
                        /\ call.outcome \in {"ok", "move_failed"}
                        /\ transcripts' = transcripts \cup {video_path}
                  /\ call.outcome \in {"ok", "move_failed"} =>
                        video_path \in transcripts' ]_vars

\* a recording whose transcript exists was given to process_recording again
C40_Witness ==
    /\ stages # <<>>
    /\ stages[Len(stages)].op = "process_recording"
    /\ ~stages[Len(stages)].ran
    /\ video_path \in transcripts
    /\ InRecordings(video_path, recordings)

====
